---- MODULE Spec2Model ----
(***************************************************************************)
(* Session store of the RAG chatbot backend: services/sessionManager.js,   *)
(* the cache client of config/services.js and the session and chat routes; *)
(* and the embeddings generator, services/embeddings.js.                   *)
(*                                                                         *)
(* Time is in milliseconds.  A call of a SessionManager method is a stack  *)
(* of frames, one per async function entered; a block runs a frame from    *)
(* its position to the next await.  A cache command takes effect when the  *)
(* call resumes from its await.  Objects the in-memory fallback holds by   *)
(* reference are modelled by value: every read of such an object in the    *)
(* code happens in the block that fetched it.                              *)
(***************************************************************************)
EXTENDS Integers, Sequences, FiniteSets, TLC

\* ---------------------------------------------------------------- bounds
MaxAppends == 2         \* messages a run of the class harness appends
MaxListLen == 3         \* messages a run of the two-backend harness appends
MaxPage == 2            \* limit and offset range over 0..MaxPage
MaxTicks == 3           \* clock horizon of the class harness, in ticks
MaxCapAppends == 105    \* messages a run of the cap harness appends
MaxChats == 1           \* chat requests a run of the application serves
MaxAppTicks == 4        \* clock horizon of the application, in ticks
MaxConcAppends == 2     \* messages the callers of the overlapping-calls harness append
MaxTexts == 25          \* texts handed to generateEmbeddings
MaxArticles == 3        \* articles the sources deliver to a run of fetchLatestNews
LongWords == 451        \* words of the long article
MaxChunkParam == 3      \* maxChunkSize ranges over 1..MaxChunkParam, overlap over 0..MaxChunkParam
MaxIterations == 6      \* iterations of chunkContent's loop that are followed
MaxIdLength == 6        \* characters of an identifier handed to generateValidPointId
MaxPoints == 201        \* vectors handed to upsertVectors
MaxReingested == 2      \* articles the sources deliver to a run that is repeated
RunArticles == 22       \* articles the sources deliver to a run of the ingestion script
ChatLongChars == 801      \* characters of the longer indexed chunk a chat finds
ChatMidChars == 201       \* characters of the shorter indexed chunk a chat finds

\* ------------------------------------------------------ program constants
HistoryCap == 100               \* messages kept per session
DefaultSessionTTL == 86400      \* seconds, when CHAT_HISTORY_TTL is unset
SweepIntervalMs == 60000        \* period of the fallback cleanup timer
DefaultLimit == 50              \* getMessages' limit when the caller gives none
MaxRetries == 3                 \* EmbeddingsService.maxRetries
RetryDelayMs == 1000            \* EmbeddingsService.retryDelay
BatchSize == 20                 \* EmbeddingsService.batchSize
BatchPauseMs == 500             \* delay between two batches
EmbeddingDim == 768             \* length of a fallback vector
KeyLength == 50                 \* characters of a title that make its key
DefaultMaxChunkSize == 500      \* chunkContent: words per chunk
DefaultOverlap == 50            \* chunkContent: words two chunks share
MaxFetched == 100000            \* articles fetchLatestNews returns at most
VectorSize == 768               \* VectorStoreService.vectorSize
UpsertBatchSize == 100          \* points per upsert request
DefaultSearchLimit == 5         \* searchSimilar's limit when the caller gives none
DefaultThreshold == 70          \* searchSimilar's threshold when none is given: 0.7

Null == [null |-> TRUE]         \* JS null / undefined
Managers == {"chat", "session"} \* the two SessionManager instances (routes)
SessionIds == {"s1", "s2"}      \* session identifiers in use
Keys == {"session", "messages"} \X SessionIds
SessionKey(sessionId) == <<"session", sessionId>>     \* `session:${id}`
MessagesKey(sessionId) == <<"messages", sessionId>>   \* `messages:${id}`

TickMs == SweepIntervalMs       \* the clock advances one sweep period a tick
EnvTTLs == {"", "120"}          \* CHAT_HISTORY_TTL: unset, or 120 seconds

VARIABLES
    now,              \* Date.now()
    env,              \* process.env.CHAT_HISTORY_TTL
    servicesStarted,  \* initializeServices has run
    redisClient,      \* services.js: let redisClient
    redisStore,       \* the cache: key -> Null or [value, expireAt]
    smRedis,          \* this.redis of each manager
    sessionTTL,       \* this.sessionTTL of each manager (seconds)
    fallbackStorage,  \* this.fallbackStorage of each manager: key -> value
    cleanupTimer,     \* next firing time of each manager's interval, or Null
    nextMessageId,    \* messages are identified by a fresh id each
    pending,          \* sessions whose POST /api/chat awaits the generated answer
    last,             \* the call that completed last and what it returned
    startup,          \* initializeServices() in progress: position and outcome
    calls,            \* SessionManager calls in flight, by caller
    emb,              \* the EmbeddingsService and its generateEmbeddings run
    ingestion,        \* the IngestionService: articles fetched, deduplicated, chunked
    chunker,          \* a call of chunkContent: its loop variables
    pointId,          \* a call of generateValidPointId
    qdrant,           \* the vector database: its collection, points and requests
    vstore,           \* the VectorStoreService instances and their calls
    run,              \* scripts/ingest.js: runIngestion in progress
    chat              \* a ChatService and its generateResponse call

\* the ingestion pipeline and the vector store
ragVars == <<ingestion, chunker, pointId, qdrant, vstore, run, chat>>

\* what the actions of the session store leave alone
others == <<startup, calls, emb, ragVars>>

vars == <<now, env, servicesStarted, redisClient, redisStore, smRedis,
          sessionTTL, fallbackStorage, cleanupTimer, nextMessageId, pending, last,
          startup, calls, emb, ragVars>>

\* ------------------------------------------------------------ JS helpers
Max(a, b) == IF a >= b THEN a ELSE b
Min(a, b) == IF a <= b THEN a ELSE b

\* new Date(t).toISOString() and new Date(s).getTime()
ToISOString(t) == [iso |-> t]
DateGetTime(s) == s.iso

\* JSON.stringify / JSON.parse of session records and message lists
JSONStringify(v) == [json |-> v]
JSONParse(s) == s.json

\* a JS array is a record holding its elements
Arr(s) == [items |-> s]

\* Array.prototype.slice(start, end), indices from 0, negative from the end
SliceIndex(len, i) == IF i < 0 THEN Max(len + i, 0) ELSE Min(i, len)
Slice(arr, start, end) ==
    LET s == SliceIndex(Len(arr.items), start)
        e == SliceIndex(Len(arr.items), end)
    IN  Arr(IF s < e THEN SubSeq(arr.items, s + 1, e) ELSE <<>>)

\* arr.push(x)
Push(arr, x) == Arr(Append(arr.items, x))
\* arr.splice(0, n): drop the first n elements
SpliceFront(arr, n) ==
    Arr(SubSeq(arr.items, Min(Max(n, 0), Len(arr.items)) + 1, Len(arr.items)))

\* parseInt of an environment string; 0 stands for NaN (both are falsy)
ParseInt(s) == IF s = "120" THEN 120 ELSE 0
\* parseInt(process.env.CHAT_HISTORY_TTL) || 86400
ParseSessionTTL(e) == IF ParseInt(e) = 0 THEN DefaultSessionTTL ELSE ParseInt(e)

\* ------------------------------------------------------- the cache server
RedisLive(store, key, t) == store[key] # Null /\ t < store[key].expireAt
RedisGet(store, key, t) == IF RedisLive(store, key, t) THEN store[key].value ELSE Null
\* mutant: the expiry taken in milliseconds
RedisSetex_Millis(store, key, ttl, value, t) ==
    [store EXCEPT ![key] = [value |-> value, expireAt |-> t + ttl]]
RedisSetex(store, key, ttl, value, t) ==
    [store EXCEPT ![key] = [value |-> value, expireAt |-> t + ttl * 1000]]
RedisDel(store, key) == [store EXCEPT ![key] = Null]
\* keys whose time has come are gone
RedisExpire(store, t) ==
    [k \in Keys |-> IF RedisLive(store, k, t) THEN store[k] ELSE Null]

\* ------------------------------------------------- calls, frames, blocks
\* The world a block reads and writes.
World == [now |-> now, redisStore |-> redisStore, fallbackStorage |-> fallbackStorage,
          smRedis |-> smRedis, sessionTTL |-> sessionTTL]

Frame(fn) == [fn |-> fn, pc |-> "start", sessionData |-> Null, messages |-> Null]

\* A call of method op on manager m; options are getMessages' { limit, offset }.
NewCall(op, m, sessionId, message, limit, offset) ==
    [op |-> op, m |-> m, sessionId |-> sessionId, message |-> message,
     limit |-> limit, offset |-> offset,
     stack |-> <<Frame(op)>>, ret |-> Null, status |-> "running"]

Top(c) == c.stack[Len(c.stack)]
SetTop(c, f) == [c EXCEPT !.stack = [@ EXCEPT ![Len(@)] = f]]

\* the frame awaits: the call is suspended
Suspend(w, c, f) == [w |-> w, c |-> SetTop(c, f), go |-> FALSE]
\* the frame calls async function fn: its body runs on, synchronously
Invoke(w, c, f, fn) ==
    [w |-> w, c |-> [SetTop(c, f) EXCEPT !.stack = Append(@, Frame(fn))], go |-> TRUE]
\* the frame returns v: its promise resolves, and the awaiting caller (if any)
\* resumes later
Return(w, c, v) ==
    [w |-> w,
     c |-> [c EXCEPT !.stack = SubSeq(@, 1, Len(@) - 1),
                     !.ret = v,
                     !.status = IF Len(c.stack) = 1 THEN "done" ELSE "running"],
     go |-> FALSE]

FallbackGet(w, m, key) == w.fallbackStorage[m][key]
FallbackSet(w, m, key, value) == [w EXCEPT !.fallbackStorage[m][key] = value]
FallbackDelete(w, m, key) == [w EXCEPT !.fallbackStorage[m][key] = Null]

\* mutant: a message list that is already there is left as it is
createSession_KeepsMessages(w, c) ==
    LET f == Top(c)
        m == c.m
        id == c.sessionId
        sessionData == [id |-> id,
                        created |-> ToISOString(w.now),
                        lastActivity |-> ToISOString(w.now),
                        messageCount |-> 0]
    IN  CASE f.pc = "start" ->
               IF w.smRedis[m] # Null
               THEN Suspend(w, c, [f EXCEPT !.pc = "await_setex_session",
                                            !.sessionData = sessionData])
               ELSE Return(IF FallbackGet(w, m, MessagesKey(id)) # Null
                           THEN FallbackSet(w, m, SessionKey(id), sessionData)
                           ELSE FallbackSet(FallbackSet(w, m, SessionKey(id), sessionData),
                                            m, MessagesKey(id), Arr(<<>>)),
                           c, sessionData)
          [] f.pc = "await_setex_session" ->
               Suspend([w EXCEPT !.redisStore =
                            RedisSetex(@, SessionKey(id), w.sessionTTL[m],
                                       JSONStringify(f.sessionData), w.now)],
                       c, [f EXCEPT !.pc = "await_setex_messages"])
          [] f.pc = "await_setex_messages" ->
               Return(IF RedisLive(w.redisStore, MessagesKey(id), w.now)
                      THEN w
                      ELSE [w EXCEPT !.redisStore =
                                RedisSetex(@, MessagesKey(id), w.sessionTTL[m],
                                           JSONStringify(Arr(<<>>)), w.now)],
                      c, f.sessionData)

\* async createSession(sessionId)
createSession(w, c) ==
    LET f == Top(c)
        m == c.m
        id == c.sessionId
        sessionData == [id |-> id,
                        created |-> ToISOString(w.now),
                        lastActivity |-> ToISOString(w.now),
                        messageCount |-> 0]
    IN  CASE f.pc = "start" ->
               IF w.smRedis[m] # Null
               THEN Suspend(w, c, [f EXCEPT !.pc = "await_setex_session",
                                            !.sessionData = sessionData])
               ELSE Return(FallbackSet(FallbackSet(w, m, SessionKey(id), sessionData),
                                       m, MessagesKey(id), Arr(<<>>)),
                           c, sessionData)
          [] f.pc = "await_setex_session" ->
               Suspend([w EXCEPT !.redisStore =
                            RedisSetex(@, SessionKey(id), w.sessionTTL[m],
                                       JSONStringify(f.sessionData), w.now)],
                       c, [f EXCEPT !.pc = "await_setex_messages"])
          [] f.pc = "await_setex_messages" ->
               Return([w EXCEPT !.redisStore =
                           RedisSetex(@, MessagesKey(id), w.sessionTTL[m],
                                      JSONStringify(Arr(<<>>)), w.now)],
                      c, f.sessionData)

\* mutant: the lookup's result is ignored and the session always re-created
getSessionInfo_AlwaysCreates(w, c) ==
    LET f == Top(c)
    IN  CASE f.pc = "start" ->
               IF w.smRedis[c.m] # Null
               THEN Suspend(w, c, [f EXCEPT !.pc = "await_get"])
               ELSE Invoke(w, c, [f EXCEPT !.pc = "await_createSession"], "createSession")
          [] f.pc = "await_get" ->
               Invoke(w, c, [f EXCEPT !.pc = "await_createSession"], "createSession")
          [] f.pc = "await_createSession" -> Return(w, c, c.ret)

\* async getSessionInfo(sessionId)
getSessionInfo(w, c) ==
    LET f == Top(c)
        m == c.m
        id == c.sessionId
        \* if (!sessionData) return await this.createSession(sessionId)
        Found(sessionData) ==
            IF sessionData = Null
            THEN Invoke(w, c, [f EXCEPT !.pc = "await_createSession"], "createSession")
            ELSE Return(w, c, sessionData)
    IN  CASE f.pc = "start" ->
               IF w.smRedis[m] # Null
               THEN Suspend(w, c, [f EXCEPT !.pc = "await_get"])
               ELSE Found(FallbackGet(w, m, SessionKey(id)))
          [] f.pc = "await_get" ->
               LET data == RedisGet(w.redisStore, SessionKey(id), w.now)
               IN  Found(IF data # Null THEN JSONParse(data) ELSE Null)
          [] f.pc = "await_createSession" -> Return(w, c, c.ret)

\* mutant: the trim leaves one message too many
PushCapped_OffByOne(messages, message) ==
    LET pushed == Push(messages, message)
    IN  IF Len(pushed.items) > HistoryCap + 1
        THEN SpliceFront(pushed, Len(pushed.items) - HistoryCap - 1)
        ELSE pushed

\* messages.push(message); if (messages.length > 100) messages.splice(0, length - 100)
PushCapped(messages, message) ==
    LET pushed == Push(messages, message)
    IN  IF Len(pushed.items) > HistoryCap
        THEN SpliceFront(pushed, Len(pushed.items) - HistoryCap)
        ELSE pushed

\* mutant: messageCount is not updated
Touch_KeepsCount(sessionData, messages, t) ==
    [sessionData EXCEPT !.lastActivity = ToISOString(t)]

\* sessionData.lastActivity = new Date().toISOString(); .messageCount = messages.length
Touch(sessionData, messages, t) ==
    [sessionData EXCEPT !.lastActivity = ToISOString(t),
                        !.messageCount = Len(messages.items)]

\* mutant: the write appends to the list the cache holds when the write lands
addMessage_AppendsOnWrite(w, c) ==
    LET f == Top(c)
        m == c.m
        id == c.sessionId
    IN  CASE f.pc = "start" ->
               Invoke(w, c, [f EXCEPT !.pc = "await_getSessionInfo"], "getSessionInfo")
          [] f.pc = "await_getSessionInfo" ->
               IF w.smRedis[m] # Null
               THEN Suspend(w, c, [f EXCEPT !.pc = "await_get_messages"])
               ELSE LET stored == FallbackGet(w, m, MessagesKey(id))
                        messages == PushCapped(IF stored # Null THEN stored ELSE Arr(<<>>),
                                               c.message)
                        w1 == FallbackSet(w, m, MessagesKey(id), messages)
                        sessionData == FallbackGet(w1, m, SessionKey(id))
                    IN  IF sessionData # Null
                        THEN Return(FallbackSet(w1, m, SessionKey(id),
                                                Touch(sessionData, messages, w.now)),
                                    c, Null)
                        ELSE Return(w1, c, Null)
          [] f.pc = "await_get_messages" ->
               LET messagesData == RedisGet(w.redisStore, MessagesKey(id), w.now)
                   messages == PushCapped(IF messagesData # Null
                                          THEN JSONParse(messagesData) ELSE Arr(<<>>),
                                          c.message)
               IN  Suspend(w, c, [f EXCEPT !.pc = "await_setex_messages",
                                           !.messages = messages])
          [] f.pc = "await_setex_messages" ->
               Invoke([w EXCEPT !.redisStore =
                           RedisSetex(@, MessagesKey(id), w.sessionTTL[m],
                                      JSONStringify(PushCapped(
                                          IF RedisGet(w.redisStore, MessagesKey(id), w.now) # Null
                                          THEN JSONParse(RedisGet(w.redisStore, MessagesKey(id), w.now))
                                          ELSE Arr(<<>>), c.message)), w.now)],
                      c, [f EXCEPT !.pc = "await_getSessionInfo2"], "getSessionInfo")
          [] f.pc = "await_getSessionInfo2" ->
               Suspend(w, c, [f EXCEPT !.pc = "await_setex_session",
                                       !.sessionData = Touch(c.ret, f.messages, w.now)])
          [] f.pc = "await_setex_session" ->
               Return([w EXCEPT !.redisStore =
                           RedisSetex(@, SessionKey(id), w.sessionTTL[m],
                                      JSONStringify(f.sessionData), w.now)],
                      c, Null)

\* async addMessage(sessionId, message)
addMessage(w, c) ==
    LET f == Top(c)
        m == c.m
        id == c.sessionId
    IN  CASE f.pc = "start" ->
               Invoke(w, c, [f EXCEPT !.pc = "await_getSessionInfo"], "getSessionInfo")
          [] f.pc = "await_getSessionInfo" ->
               IF w.smRedis[m] # Null
               THEN Suspend(w, c, [f EXCEPT !.pc = "await_get_messages"])
               ELSE LET stored == FallbackGet(w, m, MessagesKey(id))
                        messages == PushCapped(IF stored # Null THEN stored ELSE Arr(<<>>),
                                               c.message)
                        w1 == FallbackSet(w, m, MessagesKey(id), messages)
                        sessionData == FallbackGet(w1, m, SessionKey(id))
                    IN  IF sessionData # Null
                        THEN Return(FallbackSet(w1, m, SessionKey(id),
                                                Touch(sessionData, messages, w.now)),
                                    c, Null)
                        ELSE Return(w1, c, Null)
          [] f.pc = "await_get_messages" ->
               LET messagesData == RedisGet(w.redisStore, MessagesKey(id), w.now)
                   messages == PushCapped(IF messagesData # Null
                                          THEN JSONParse(messagesData) ELSE Arr(<<>>),
                                          c.message)
               IN  Suspend(w, c, [f EXCEPT !.pc = "await_setex_messages",
                                           !.messages = messages])
          [] f.pc = "await_setex_messages" ->
               Invoke([w EXCEPT !.redisStore =
                           RedisSetex(@, MessagesKey(id), w.sessionTTL[m],
                                      JSONStringify(f.messages), w.now)],
                      c, [f EXCEPT !.pc = "await_getSessionInfo2"], "getSessionInfo")
          [] f.pc = "await_getSessionInfo2" ->
               Suspend(w, c, [f EXCEPT !.pc = "await_setex_session",
                                       !.sessionData = Touch(c.ret, f.messages, w.now)])
          [] f.pc = "await_setex_session" ->
               Return([w EXCEPT !.redisStore =
                           RedisSetex(@, SessionKey(id), w.sessionTTL[m],
                                      JSONStringify(f.sessionData), w.now)],
                      c, Null)

\* mutant: pages counted forward from the oldest message
Paginate_FromOldest(messages, limit, offset) ==
    Slice(messages, offset, offset + limit)

\* const startIndex = Math.max(0, messages.length - limit - offset) ... slice
Paginate(messages, limit, offset) ==
    LET startIndex == Max(0, Len(messages.items) - limit - offset)
        endIndex == Max(0, Len(messages.items) - offset)
    IN  Slice(messages, startIndex, endIndex)

\* async getMessages(sessionId, { limit, offset })
getMessages(w, c) ==
    LET f == Top(c)
        m == c.m
        id == c.sessionId
    IN  CASE f.pc = "start" ->
               IF w.smRedis[m] # Null
               THEN Suspend(w, c, [f EXCEPT !.pc = "await_get"])
               ELSE LET stored == FallbackGet(w, m, MessagesKey(id))
                    IN  Return(w, c, Paginate(IF stored # Null THEN stored ELSE Arr(<<>>),
                                              c.limit, c.offset))
          [] f.pc = "await_get" ->
               LET messagesData == RedisGet(w.redisStore, MessagesKey(id), w.now)
               IN  Return(w, c, Paginate(IF messagesData # Null
                                         THEN JSONParse(messagesData) ELSE Arr(<<>>),
                                         c.limit, c.offset))

\* mutant: on the cache only the session record is deleted
deleteSession_KeepsCachedMessages(w, c) ==
    LET f == Top(c)
    IN  CASE f.pc = "start" ->
               IF w.smRedis[c.m] # Null
               THEN Suspend(w, c, [f EXCEPT !.pc = "await_del_session"])
               ELSE Return(FallbackDelete(FallbackDelete(w, c.m, SessionKey(c.sessionId)),
                                          c.m, MessagesKey(c.sessionId)),
                           c, Null)
          [] f.pc = "await_del_session" ->
               Return([w EXCEPT !.redisStore = RedisDel(@, SessionKey(c.sessionId))],
                      c, Null)

\* async deleteSession(sessionId)
deleteSession(w, c) ==
    LET f == Top(c)
        m == c.m
        id == c.sessionId
    IN  CASE f.pc = "start" ->
               IF w.smRedis[m] # Null
               THEN Suspend(w, c, [f EXCEPT !.pc = "await_del_session"])
               ELSE Return(FallbackDelete(FallbackDelete(w, m, SessionKey(id)),
                                          m, MessagesKey(id)),
                           c, Null)
          [] f.pc = "await_del_session" ->
               Suspend([w EXCEPT !.redisStore = RedisDel(@, SessionKey(id))],
                       c, [f EXCEPT !.pc = "await_del_messages"])
          [] f.pc = "await_del_messages" ->
               Return([w EXCEPT !.redisStore = RedisDel(@, MessagesKey(id))], c, Null)

\* one block of the frame on top of the stack
Block(w, c) ==
    CASE Top(c).fn = "createSession" -> createSession(w, c)
      [] Top(c).fn = "getSessionInfo" -> getSessionInfo(w, c)
      [] Top(c).fn = "addMessage" -> addMessage(w, c)
      [] Top(c).fn = "getMessages" -> getMessages(w, c)
      [] Top(c).fn = "deleteSession" -> deleteSession(w, c)

\* run the call from where it stands until it awaits or completes
RECURSIVE Run(_, _)
Run(w, c) ==
    LET r == Block(w, c)
    IN  IF r.go THEN Run(r.w, r.c) ELSE [w |-> r.w, c |-> r.c]

\* the call with nothing else scheduled between its awaits and no time passing
RECURSIVE RunToCompletion(_, _)
RunToCompletion(w, c) ==
    LET r == Run(w, c)
    IN  IF r.c.status = "done" THEN r ELSE RunToCompletion(r.w, r.c)

\* ------------------------------------------------------------ the state
Client == [client |-> "ioredis"]    \* the connected cache client
Msg(n, role) == [id |-> n, role |-> role]
Message(n) == Msg(n, "user")
NoCall == [op |-> "none", m |-> "none", sessionId |-> "", limit |-> 0, offset |-> 0,
           ret |-> Null]

\* initializeServices() has not been called
NotStarted == [pc |-> "idle", failure |-> "none", thrown |-> FALSE]
\* callers that may have a SessionManager call in flight at the same time
Callers == {"a", "b"}
Idle == [status |-> "idle"]
\* new EmbeddingsService(), before a key is read and before any run
EmbIdle == [pc |-> "idle"]

\* a function that has not been called
NotCalled == [pc |-> "idle"]
\* the vector database before any request: no collection, no point
NoDatabase == [collection |-> Null, points |-> {}, created |-> 0]
\* the VectorStoreService objects: scripts/ingest.js makes one, every chat
\* request makes one more (new ChatService())
Instances == {"v1", "v2"}
NotConstructed == [pc |-> "none"]

\* new SessionManager(), twice (routes/chat.js, routes/session.js); services.js loaded
Init ==
    /\ now = 0
    /\ env \in EnvTTLs
    /\ servicesStarted = FALSE
    /\ redisClient = Null
    /\ redisStore = [k \in Keys |-> Null]
    /\ smRedis = [m \in Managers |-> Null]
    /\ sessionTTL = [m \in Managers |-> ParseSessionTTL(env)]
    /\ fallbackStorage = [m \in Managers |-> [k \in Keys |-> Null]]
    /\ cleanupTimer = [m \in Managers |-> Null]
    /\ nextMessageId = 1
    /\ pending = {}
    /\ last = NoCall
    /\ startup = NotStarted
    /\ calls = [p \in Callers |-> Idle]
    /\ emb = EmbIdle
    /\ ingestion = NotCalled
    /\ chunker = NotCalled
    /\ pointId = NotCalled
    /\ qdrant = NoDatabase
    /\ vstore = [v \in Instances |-> NotConstructed]
    /\ run = NotCalled
    /\ chat = NotCalled

\* initializeServices(): redisClient is the client if the ping succeeds, else null
InitializeServices(pingOk) ==
    /\ ~servicesStarted
    /\ servicesStarted' = TRUE
    /\ redisClient' = IF pingOk THEN Client ELSE Null
    /\ UNCHANGED <<now, env, redisStore, smRedis, sessionTTL, fallbackStorage,
                   cleanupTimer, nextMessageId, pending, last>>
    /\ UNCHANGED others

\* async initialize() { this.redis = getRedisClient(); }
\* (called while the manager's fallback map holds nothing)
Initialize(m) ==
    /\ \A k \in Keys : fallbackStorage[m][k] = Null
    /\ smRedis' = [smRedis EXCEPT ![m] = redisClient]
    /\ UNCHANGED <<now, env, servicesStarted, redisClient, redisStore, sessionTTL,
                   fallbackStorage, cleanupTimer, nextMessageId, pending, last>>
    /\ UNCHANGED others

\* startCleanupTimer(): if (!this.redis) setInterval(sweep, 60000)
\* (one interval per manager: a second call would start a second interval)
StartCleanupTimer(m) ==
    /\ cleanupTimer[m] = Null
    /\ smRedis[m] = Null
    /\ cleanupTimer' = [cleanupTimer EXCEPT ![m] = [next |-> now + SweepIntervalMs]]
    /\ UNCHANGED <<now, env, servicesStarted, redisClient, redisStore, smRedis,
                   sessionTTL, fallbackStorage, nextMessageId, pending, last>>
    /\ UNCHANGED others

\* the sweep's test of one entry of fallbackStorage
Expired(m, sessionId, t) ==
    LET value == fallbackStorage[m][SessionKey(sessionId)]
    IN  /\ value # Null
        /\ t - DateGetTime(value.created) > sessionTTL[m] * 1000

\* the interval callback: delete every expired session and its messages
Sweep(m) ==
    /\ cleanupTimer[m] # Null
    /\ now >= cleanupTimer[m].next
    /\ fallbackStorage' = [fallbackStorage EXCEPT ![m] =
           [k \in Keys |-> IF Expired(m, k[2], now) THEN Null ELSE @[k]]]
    /\ cleanupTimer' = [cleanupTimer EXCEPT ![m] = [next |-> @.next + SweepIntervalMs]]
    /\ UNCHANGED <<now, env, servicesStarted, redisClient, redisStore, smRedis,
                   sessionTTL, nextMessageId, pending, last>>
    /\ UNCHANGED others

TimerDue == \E m \in Managers : cleanupTimer[m] # Null /\ now >= cleanupTimer[m].next

\* time passes; a timer that is due fires first; the cache drops expired keys
Tick ==
    /\ now < MaxTicks * TickMs
    /\ ~TimerDue
    /\ now' = now + TickMs
    /\ redisStore' = RedisExpire(redisStore, now')
    /\ UNCHANGED <<env, servicesStarted, redisClient, smRedis, sessionTTL,
                   fallbackStorage, cleanupTimer, nextMessageId, pending, last>>
    /\ UNCHANGED others

\* the stores and the caller's view after a call has completed
Completed(c, r) ==
    /\ redisStore' = r.w.redisStore
    /\ fallbackStorage' = r.w.fallbackStorage
    /\ last' = [op |-> c.op, m |-> c.m, sessionId |-> c.sessionId,
                limit |-> c.limit, offset |-> c.offset, ret |-> r.c.ret]
    /\ UNCHANGED <<now, env, servicesStarted, redisClient, smRedis, sessionTTL,
                   cleanupTimer>>
    /\ UNCHANGED others

\* a call that runs alone, start to completion
Call(c) == Completed(c, RunToCompletion(World, c))

CreateSession(m, sessionId) ==
    /\ Call(NewCall("createSession", m, sessionId, Null, 0, 0))
    /\ UNCHANGED <<nextMessageId, pending>>

GetSessionInfo(m, sessionId) ==
    /\ Call(NewCall("getSessionInfo", m, sessionId, Null, 0, 0))
    /\ UNCHANGED <<nextMessageId, pending>>

AddMessage(m, sessionId, bound) ==
    /\ nextMessageId <= bound
    /\ Call(NewCall("addMessage", m, sessionId, Message(nextMessageId), 0, 0))
    /\ nextMessageId' = nextMessageId + 1
    /\ UNCHANGED pending

GetMessages(m, sessionId, limit, offset) ==
    /\ Call(NewCall("getMessages", m, sessionId, Null, limit, offset))
    /\ UNCHANGED <<nextMessageId, pending>>

DeleteSession(m, sessionId) ==
    /\ Call(NewCall("deleteSession", m, sessionId, Null, 0, 0))
    /\ UNCHANGED <<nextMessageId, pending>>

\* what a manager's backend holds for a session: the record, the message list
StoredSession(m, sessionId) ==
    IF smRedis[m] # Null
    THEN LET data == RedisGet(redisStore, SessionKey(sessionId), now)
         IN  IF data # Null THEN JSONParse(data) ELSE Null
    ELSE fallbackStorage[m][SessionKey(sessionId)]

StoredMessages(m, sessionId) ==
    IF smRedis[m] # Null
    THEN LET data == RedisGet(redisStore, MessagesKey(sessionId), now)
         IN  IF data # Null THEN JSONParse(data) ELSE Null
    ELSE fallbackStorage[m][MessagesKey(sessionId)]

\* -------------------------------------------------- the class harness
\* One SessionManager driven through its public methods, one call at a time,
\* with CHAT_HISTORY_TTL short enough for sessions to expire within the horizon.
Sm == "chat"

InitTimed == Init /\ ParseSessionTTL(env) * 1000 <= MaxTicks * TickMs

Next ==
    \/ \E pingOk \in BOOLEAN : InitializeServices(pingOk)
    \/ Initialize(Sm)
    \/ StartCleanupTimer(Sm)
    \/ Sweep(Sm)
    \/ Tick
    \/ \E id \in SessionIds : CreateSession(Sm, id)
    \/ \E id \in SessionIds : GetSessionInfo(Sm, id)
    \/ \E id \in SessionIds : AddMessage(Sm, id, MaxAppends)
    \/ \E id \in SessionIds : GetMessages(Sm, id, DefaultLimit, 0)
    \/ \E id \in SessionIds : DeleteSession(Sm, id)

Spec == InitTimed /\ [][Next]_vars

\* ---------------------------------------------------- the cap harness
\* One session of one manager, appended to until the history cap is passed.
CapId == "s1"

NextCap ==
    \/ \E pingOk \in BOOLEAN : InitializeServices(pingOk)
    \/ Initialize(Sm)
    \/ AddMessage(Sm, CapId, MaxCapAppends)
    \/ GetMessages(Sm, CapId, HistoryCap, 0)

SpecCap == Init /\ [][NextCap]_vars

\* ----------------------------------------------- the two-backend harness
\* Two managers, Rd on the cache and Fb on its fallback map, given the same
\* calls one after the other; no time passes.
Fb == "chat"
Rd == "session"

BothCompleted(c, rF, rR) ==
    /\ redisStore' = rR.w.redisStore
    /\ fallbackStorage' = rR.w.fallbackStorage
    /\ last' = [op |-> c.op, m |-> "both", sessionId |-> c.sessionId,
                limit |-> c.limit, offset |-> c.offset,
                ret |-> [fallback |-> rF.c.ret, redis |-> rR.c.ret]]
    /\ UNCHANGED <<now, env, servicesStarted, redisClient, smRedis, sessionTTL,
                   cleanupTimer>>
    /\ UNCHANGED others

\* the call on Fb, then the same call on Rd
Then(c, rF) == BothCompleted(c, rF, RunToCompletion(rF.w, [c EXCEPT !.m = Rd]))

Both(op, sessionId, message, limit, offset) ==
    /\ smRedis[Fb] = Null
    /\ smRedis[Rd] # Null
    /\ Then(NewCall(op, Fb, sessionId, message, limit, offset),
            RunToCompletion(World, NewCall(op, Fb, sessionId, message, limit, offset)))

BothCreateSession(sessionId) ==
    Both("createSession", sessionId, Null, 0, 0) /\ UNCHANGED <<nextMessageId, pending>>

BothGetSessionInfo(sessionId) ==
    Both("getSessionInfo", sessionId, Null, 0, 0) /\ UNCHANGED <<nextMessageId, pending>>

BothAddMessage(sessionId) ==
    /\ nextMessageId <= MaxListLen
    /\ Both("addMessage", sessionId, Message(nextMessageId), 0, 0)
    /\ nextMessageId' = nextMessageId + 1
    /\ UNCHANGED pending

BothGetMessages(sessionId, limit, offset) ==
    Both("getMessages", sessionId, Null, limit, offset) /\ UNCHANGED <<nextMessageId, pending>>

BothDeleteSession(sessionId) ==
    Both("deleteSession", sessionId, Null, 0, 0) /\ UNCHANGED <<nextMessageId, pending>>

NextEquiv ==
    \/ \E pingOk \in BOOLEAN : InitializeServices(pingOk)
    \/ Initialize(Rd)
    \/ \E id \in SessionIds : BothCreateSession(id)
    \/ \E id \in SessionIds : BothGetSessionInfo(id)
    \/ \E id \in SessionIds : BothAddMessage(id)
    \/ \E id \in SessionIds, limit \in 0..MaxPage, offset \in 0..MaxPage :
           BothGetMessages(id, limit, offset)
    \/ \E id \in SessionIds : BothDeleteSession(id)

SpecEquiv == Init /\ [][NextEquiv]_vars

\* ------------------------------------------------------ the application
\* app.js: startServer() awaits initializeServices() and then listens; the
\* routes are served from then on.  routes/chat.js and routes/session.js each
\* hold a SessionManager of their own; neither calls initialize() or
\* startCleanupTimer().
ChatManager == "chat"
SessionManagerOfSessions == "session"

StartServer(pingOk) == InitializeServices(pingOk)

\* POST /api/session: createSession(uuidv4()), an identifier no store knows
PostSession(sessionId) ==
    /\ servicesStarted
    /\ \A m \in Managers, k \in {SessionKey(sessionId), MessagesKey(sessionId)} :
           fallbackStorage[m][k] = Null
    /\ redisStore[SessionKey(sessionId)] = Null
    /\ redisStore[MessagesKey(sessionId)] = Null
    /\ CreateSession(SessionManagerOfSessions, sessionId)

\* GET /api/session/:sessionId
GetSession(sessionId) ==
    /\ servicesStarted
    /\ GetSessionInfo(SessionManagerOfSessions, sessionId)

\* DELETE /api/session/:sessionId
DeleteSessionRoute(sessionId) ==
    /\ servicesStarted
    /\ DeleteSession(SessionManagerOfSessions, sessionId)

\* POST /api/chat, up to the await of generateResponse: the user message is stored
PostChat(sessionId) ==
    /\ servicesStarted
    /\ sessionId \notin pending
    /\ nextMessageId < 2 * MaxChats
    /\ Call(NewCall("addMessage", ChatManager, sessionId, Msg(nextMessageId, "user"), 0, 0))
    /\ nextMessageId' = nextMessageId + 1
    /\ pending' = pending \cup {sessionId}

\* POST /api/chat, from the answer on: the assistant message is stored
PostChatAnswer(sessionId) ==
    /\ sessionId \in pending
    /\ Call(NewCall("addMessage", ChatManager, sessionId,
                    Msg(nextMessageId, "assistant"), 0, 0))
    /\ nextMessageId' = nextMessageId + 1
    /\ pending' = pending \ {sessionId}

\* GET /api/chat/history/:sessionId (limit and offset left to their defaults)
GetHistory(sessionId) ==
    /\ servicesStarted
    /\ GetMessages(ChatManager, sessionId, DefaultLimit, 0)

AppTick ==
    /\ now < MaxAppTicks * TickMs
    /\ ~TimerDue
    /\ now' = now + TickMs
    /\ redisStore' = RedisExpire(redisStore, now')
    /\ UNCHANGED <<env, servicesStarted, redisClient, smRedis, sessionTTL,
                   fallbackStorage, cleanupTimer, nextMessageId, pending, last>>
    /\ UNCHANGED others

NextApp ==
    \/ \E pingOk \in BOOLEAN : StartServer(pingOk)
    \/ \E id \in SessionIds : PostSession(id)
    \/ \E id \in SessionIds : GetSession(id)
    \/ \E id \in SessionIds : DeleteSessionRoute(id)
    \/ \E id \in SessionIds : PostChat(id)
    \/ \E id \in SessionIds : PostChatAnswer(id)
    \/ \E id \in SessionIds : GetHistory(id)
    \/ AppTick

SpecApp == Init /\ [][NextApp]_vars

\* ------------------------------------------------- startup, step by step
\* config/services.js.  initializeRedis() builds the connection options (which
\* throws on a malformed REDIS_URL, or on missing REDIS_HOST / REDIS_PORT in
\* the host/port variant), constructs the client and awaits its ping; whatever
\* is thrown on the way lands in its catch.
RedisConfigs == {"valid", "invalid"}

\* mutant: the catch leaves the client it constructed in place
CatchInitializeRedis_KeepsClient(client, failure) ==
    [redisClient |-> client, failure |-> failure, returned |-> Null, thrown |-> FALSE]

\* catch (error) { if (redisClient) redisClient.disconnect(); redisClient = null;
\*                 return null; }
CatchInitializeRedis(client, failure) ==
    [redisClient |-> Null, failure |-> failure, returned |-> Null, thrown |-> FALSE]

\* initializeServices' own try / catch around await initializeRedis(): a
\* rejection is logged and swallowed
AwaitInitializeRedis(thrown) == [pc |-> "done", thrown |-> FALSE]

\* initializeServices() is called: initializeRedis() runs to its first await
StartInitializeServices(config) ==
    /\ startup.pc = "idle"
    /\ ~servicesStarted
    /\ IF config = "invalid"
       THEN LET r == CatchInitializeRedis(redisClient, "config")
            IN  /\ redisClient' = r.redisClient
                /\ startup' = [pc |-> "await_initializeRedis", failure |-> r.failure,
                               thrown |-> r.thrown]
       ELSE /\ redisClient' = Client
            /\ startup' = [pc |-> "await_ping", failure |-> "none", thrown |-> FALSE]
    /\ UNCHANGED <<now, env, servicesStarted, redisStore, smRedis, sessionTTL,
                   fallbackStorage, cleanupTimer, nextMessageId, pending, last,
                   calls, emb, ragVars>>

\* await redisClient.ping() resolves, or rejects into the catch
PingSettles(pingOk) ==
    /\ startup.pc = "await_ping"
    /\ IF pingOk
       THEN /\ startup' = [startup EXCEPT !.pc = "await_initializeRedis"]
            /\ UNCHANGED redisClient
       ELSE LET r == CatchInitializeRedis(redisClient, "ping")
            IN  /\ redisClient' = r.redisClient
                /\ startup' = [pc |-> "await_initializeRedis", failure |-> r.failure,
                               thrown |-> r.thrown]
    /\ UNCHANGED <<now, env, servicesStarted, redisStore, smRedis, sessionTTL,
                   fallbackStorage, cleanupTimer, nextMessageId, pending, last,
                   calls, emb, ragVars>>

\* await initializeRedis() settles and initializeServices() returns
InitializeServicesReturns ==
    /\ startup.pc = "await_initializeRedis"
    /\ startup' = [startup EXCEPT !.pc = AwaitInitializeRedis(startup.thrown).pc,
                                  !.thrown = AwaitInitializeRedis(startup.thrown).thrown]
    /\ servicesStarted' = TRUE
    /\ UNCHANGED <<now, env, redisClient, redisStore, smRedis, sessionTTL,
                   fallbackStorage, cleanupTimer, nextMessageId, pending, last,
                   calls, emb, ragVars>>

\* export function getRedisClient() { return redisClient; }
getRedisClient == redisClient

\* ------------------------------------------------ calls that overlap or fail
\* a cache command rejects (connection lost, retries per request exhausted)
CacheError == [error |-> "redis command failed"]

\* the positions at which a frame awaits a cache command
CacheAwaits == {"await_setex_session", "await_setex_messages", "await_get",
                "await_get_messages", "await_del_session", "await_del_messages"}

\* try { ... } catch (error) { logger.error(...); throw error; } in every method:
\* the exception leaves the frame and each awaiting caller in turn, and the
\* call's promise rejects
Throw(w, c, error) ==
    [w |-> w,
     c |-> [c EXCEPT !.stack = <<>>, !.ret = error, !.status = "failed"],
     go |-> FALSE]

\* the call resumes from its await: the awaited command has failed, or taken effect
Resume(w, c, commandFails) ==
    IF commandFails /\ Top(c).pc \in CacheAwaits
    THEN Throw(w, c, CacheError)
    ELSE Block(w, c)

\* resume, and run on to the next await
Continue(w, c, commandFails) ==
    LET r == Resume(w, c, commandFails)
    IN  IF r.go THEN Run(r.w, r.c) ELSE [w |-> r.w, c |-> r.c]

\* the stores and caller p's call after the call has run a stretch
Ran(p, r) ==
    /\ calls' = [calls EXCEPT ![p] = r.c]
    /\ redisStore' = r.w.redisStore
    /\ fallbackStorage' = r.w.fallbackStorage
    /\ UNCHANGED <<now, env, servicesStarted, redisClient, smRedis, sessionTTL,
                   cleanupTimer, pending, last, startup, emb, ragVars>>

\* caller p calls a method: it runs to its first await
Begin(p, c) ==
    /\ calls[p] = Idle
    /\ Ran(p, Run(World, c))

\* caller p's call resumes from its await
Step(p, commandFails) ==
    /\ calls[p].status = "running"
    /\ commandFails => Top(calls[p]).pc \in CacheAwaits
    /\ Ran(p, Continue(World, calls[p], commandFails))
    /\ UNCHANGED nextMessageId

\* caller p's await of the call settles (with the result, or the exception) and
\* p is free to call again
Settle(p) ==
    /\ calls[p].status \in {"done", "failed"}
    /\ calls' = [calls EXCEPT ![p] = Idle]
    /\ UNCHANGED <<now, env, servicesStarted, redisClient, redisStore, smRedis,
                   sessionTTL, fallbackStorage, cleanupTimer, nextMessageId, pending,
                   last, startup, emb, ragVars>>

\* One manager, initialized once startup is over, and two callers working on
\* one session identifier.
ConcId == "s1"

InitializeAfterStartup ==
    /\ startup.pc = "done"
    /\ \A p \in Callers : calls[p] = Idle
    /\ Initialize(Sm)

BeginCreateSession(p) ==
    /\ startup.pc = "done"
    /\ Begin(p, NewCall("createSession", Sm, ConcId, Null, 0, 0))
    /\ UNCHANGED nextMessageId

BeginGetSessionInfo(p) ==
    /\ startup.pc = "done"
    /\ Begin(p, NewCall("getSessionInfo", Sm, ConcId, Null, 0, 0))
    /\ UNCHANGED nextMessageId

BeginAddMessage(p) ==
    /\ startup.pc = "done"
    /\ nextMessageId <= MaxConcAppends
    /\ Begin(p, NewCall("addMessage", Sm, ConcId, Message(nextMessageId), 0, 0))
    /\ nextMessageId' = nextMessageId + 1

BeginGetMessages(p) ==
    /\ startup.pc = "done"
    /\ Begin(p, NewCall("getMessages", Sm, ConcId, Null, DefaultLimit, 0))
    /\ UNCHANGED nextMessageId

BeginDeleteSession(p) ==
    /\ startup.pc = "done"
    /\ Begin(p, NewCall("deleteSession", Sm, ConcId, Null, 0, 0))
    /\ UNCHANGED nextMessageId

NextConc ==
    \/ \E config \in RedisConfigs : StartInitializeServices(config)
    \/ \E pingOk \in BOOLEAN : PingSettles(pingOk)
    \/ InitializeServicesReturns
    \/ InitializeAfterStartup
    \/ \E p \in Callers : BeginCreateSession(p)
    \/ \E p \in Callers : BeginGetSessionInfo(p)
    \/ \E p \in Callers : BeginAddMessage(p)
    \/ \E p \in Callers : BeginGetMessages(p)
    \/ \E p \in Callers : BeginDeleteSession(p)
    \/ \E p \in Callers, commandFails \in BOOLEAN : Step(p, commandFails)
    \/ \E p \in Callers : Settle(p)

\* CHAT_HISTORY_TTL is left unset: no time passes in this harness
InitConc == Init /\ env = ""

SpecConc == InitConc /\ [][NextConc]_vars

\* Two callers that only append, to one session of one manager.
NextRace ==
    \/ \E config \in RedisConfigs : StartInitializeServices(config)
    \/ \E pingOk \in BOOLEAN : PingSettles(pingOk)
    \/ InitializeServicesReturns
    \/ InitializeAfterStartup
    \/ \E p \in Callers : BeginAddMessage(p)
    \/ \E p \in Callers, commandFails \in BOOLEAN : Step(p, commandFails)
    \/ \E p \in Callers : Settle(p)

SpecRace == InitConc /\ [][NextRace]_vars

\* One caller that only appends and one that only deletes, on one session of
\* one manager.
Appender == "a"
Deleter == "b"

NextAppendDelete ==
    \/ \E config \in RedisConfigs : StartInitializeServices(config)
    \/ \E pingOk \in BOOLEAN : PingSettles(pingOk)
    \/ InitializeServicesReturns
    \/ InitializeAfterStartup
    \/ BeginAddMessage(Appender)
    \/ BeginDeleteSession(Deleter)
    \/ \E p \in Callers, commandFails \in BOOLEAN : Step(p, commandFails)
    \/ \E p \in Callers : Settle(p)

SpecAppendDelete == InitConc /\ [][NextAppendDelete]_vars

\* ------------------------------------------------- the embeddings service
\* services/embeddings.js.  A run of generateEmbeddings is at an await of
\* axios.post, at an await of delay(), or over.  The clock of a run counts the
\* time spent in delay(); a provider request settles by answering, by failing,
\* or by its 30 s timeout.
JinaKeys == {"", "jina_key"}        \* process.env.JINA_API_KEY: unset or set

\* texts 1..n, in an array
Texts(n) == Arr([j \in 1..n |-> j])
\* Array.isArray
IsArray(x) == "items" \in DOMAIN x

\* the provider's vector for a text
EmbeddingOf(text) == [d \in 1..EmbeddingDim |-> text]
\* new Array(768).fill(0)
ZeroVector == [d \in 1..EmbeddingDim |-> 0]

\* Math.pow(2, k)
RECURSIVE Pow2(_)
Pow2(k) == IF k <= 0 THEN 1 ELSE 2 * Pow2(k - 1)

\* what the provider may answer to a request for batch: nothing (transport
\* error, HTTP error, timeout), a body without data, or a data array that is
\* complete, one item short, or made of items without a vector
Responses(batch) ==
    LET n == Len(batch.items)
        item(j) == [embedding |-> EmbeddingOf(batch.items[j]), index |-> j - 1]
    IN  {[kind |-> "error", data |-> Null],
         [kind |-> "ok", data |-> Null],
         [kind |-> "ok", data |-> Arr([j \in 1..n |-> item(j)])],
         [kind |-> "ok", data |-> Arr([j \in 1..(n - 1) |-> item(j)])],
         [kind |-> "ok", data |-> Arr([j \in 1..n |-> [index |-> j - 1]])]}

\* the try block of generateBatchEmbeddings once axios.post has settled:
\* the mapped records, or an exception
TryBatch(response) ==
    IF response.kind = "error" \/ response.data = Null
    THEN [thrown |-> TRUE, embeddings |-> Null]
    ELSE IF /\ Len(response.data.items) > 0
            /\ "embedding" \notin DOMAIN response.data.items[1]
         THEN [thrown |-> TRUE, embeddings |-> Null]   \* undefined.length
         ELSE [thrown |-> FALSE,
               embeddings |-> Arr([j \in 1..Len(response.data.items) |->
                                     [embedding |-> response.data.items[j].embedding,
                                      index |-> response.data.items[j].index]])]

\* mutant: the fallback records carry no failed flag
FallbackRecords_Unflagged(texts) ==
    Arr([j \in 1..Len(texts.items) |-> [embedding |-> ZeroVector, index |-> j - 1]])

\* texts.map((_, index) => ({ embedding: zeros, index, failed: true }))
FallbackRecords(texts) ==
    Arr([j \in 1..Len(texts.items) |->
           [embedding |-> ZeroVector, index |-> j - 1, failed |-> TRUE]])

\* const batch = texts.slice(i, i + this.batchSize)
Batch(e) == Slice(e.texts, e.i, e.i + BatchSize)

Logged(e, event) == [e EXCEPT !.log = Append(@, event)]

\* axios.post(...) is issued for the current batch
PostBatch(e) ==
    Logged([e EXCEPT !.pc = "await_post", !.inFlight = @ + 1],
           [ev |-> "post", batch |-> e.i, attempt |-> e.retryCount, at |-> e.clock])

\* return allEmbeddings; generateSingleEmbedding returns its first record or null
Finish(e) ==
    [e EXCEPT !.pc = "done",
              !.ret = IF e.entry = "generateSingleEmbedding"
                      THEN IF Len(e.allEmbeddings.items) > 0
                           THEN e.allEmbeddings.items[1] ELSE Null
                      ELSE e.allEmbeddings]

\* the for loop's test: the next batch is submitted, or the run is over
LoopHead(e) ==
    IF e.i < Len(e.texts.items)
    THEN PostBatch([e EXCEPT !.retryCount = 0])
    ELSE Finish(e)

\* mutant: a pause follows every batch, the last one too
BatchReturned_AlwaysPauses(e, batchEmbeddings) ==
    Logged([e EXCEPT !.allEmbeddings = Arr(@.items \o batchEmbeddings.items),
                     !.pc = "await_pause", !.delay = BatchPauseMs,
                     !.log = Append(@, [ev |-> "returned", batch |-> e.i, at |-> e.clock])],
           [ev |-> "delay", for |-> "pause", ms |-> BatchPauseMs, at |-> e.clock])

\* generateBatchEmbeddings has returned: allEmbeddings.push(...batchEmbeddings),
\* then delay(500) if another batch follows
BatchReturned(e, batchEmbeddings) ==
    LET e1 == Logged([e EXCEPT !.allEmbeddings = Arr(@.items \o batchEmbeddings.items)],
                     [ev |-> "returned", batch |-> e.i, at |-> e.clock])
    IN  IF e.i + BatchSize < Len(e.texts.items)
        THEN Logged([e1 EXCEPT !.pc = "await_pause", !.delay = BatchPauseMs],
                    [ev |-> "delay", for |-> "pause", ms |-> BatchPauseMs, at |-> e.clock])
        ELSE LoopHead([e1 EXCEPT !.i = @ + BatchSize])

\* mutant: the backoff does not grow
Backoff_Constant(retryCount) == RetryDelayMs

\* this.retryDelay * Math.pow(2, retryCount)
Backoff(retryCount) == RetryDelayMs * Pow2(retryCount)

\* mutant: a batch that exhausts its retries ends the run
Caught_AbortsRun(e) ==
    IF e.retryCount < MaxRetries
    THEN Logged([e EXCEPT !.pc = "await_backoff", !.delay = Backoff(e.retryCount)],
                [ev |-> "delay", for |-> "retry", ms |-> Backoff(e.retryCount),
                 at |-> e.clock])
    ELSE Finish(e)

\* the catch of generateBatchEmbeddings: back off and retry, or give up and
\* return the fallback records
Caught(e) ==
    IF e.retryCount < MaxRetries
    THEN Logged([e EXCEPT !.pc = "await_backoff", !.delay = Backoff(e.retryCount)],
                [ev |-> "delay", for |-> "retry", ms |-> Backoff(e.retryCount),
                 at |-> e.clock])
    ELSE BatchReturned(e, FallbackRecords(Batch(e)))

\* a run of entry (generateEmbeddings or generateSingleEmbedding) about to start
NewRun(entry, apiKey, texts) ==
    [pc |-> "start", entry |-> entry, apiKey |-> apiKey, texts |-> texts,
     i |-> 0, retryCount |-> 0, delay |-> 0, allEmbeddings |-> Arr(<<>>),
     ret |-> Null, log |-> <<>>, inFlight |-> 0, clock |-> 0]

\* mutant: the missing key is not checked
generateEmbeddings_IgnoresKey(e) ==
    LoopHead([e EXCEPT !.texts = IF IsArray(e.texts) THEN e.texts ELSE Arr(<<e.texts>>)])

\* async generateEmbeddings(texts), up to its first await
generateEmbeddings(e) ==
    IF e.apiKey = ""
    THEN Finish(e)                                        \* return []
    ELSE LoopHead([e EXCEPT !.texts = IF IsArray(e.texts) THEN e.texts
                                      ELSE Arr(<<e.texts>>)])

\* the session store and startup, which the embeddings service does not touch
storeVars == <<now, env, servicesStarted, redisClient, redisStore, smRedis,
               sessionTTL, fallbackStorage, cleanupTimer, nextMessageId, pending,
               last, startup, calls, ragVars>>

GenerateEmbeddings(apiKey, texts) ==
    /\ emb = EmbIdle
    /\ emb' = generateEmbeddings(NewRun("generateEmbeddings", apiKey, texts))
    /\ UNCHANGED storeVars

\* generateSingleEmbedding(text): generateEmbeddings([text]), then the first
\* record or null
GenerateSingleEmbedding(apiKey, text) ==
    /\ emb = EmbIdle
    /\ emb' = generateEmbeddings(NewRun("generateSingleEmbedding", apiKey,
                                        Arr(<<text>>)))
    /\ UNCHANGED storeVars

\* await axios.post(...) settles
ProviderResponds(response) ==
    /\ emb.pc = "await_post"
    /\ emb' = IF TryBatch(response).thrown
              THEN Caught([emb EXCEPT !.inFlight = @ - 1])
              ELSE BatchReturned([emb EXCEPT !.inFlight = @ - 1],
                                 TryBatch(response).embeddings)
    /\ UNCHANGED storeVars

ProviderSettles ==
    /\ emb.pc = "await_post"
    /\ \E response \in Responses(Batch(emb)) : ProviderResponds(response)

\* await this.delay(ms) is over: the retry is posted, or the loop goes on
DelayElapses ==
    /\ emb.pc \in {"await_backoff", "await_pause"}
    /\ emb' = IF emb.pc = "await_backoff"
              THEN PostBatch([emb EXCEPT !.clock = @ + emb.delay, !.delay = 0,
                                         !.retryCount = @ + 1])
              ELSE LoopHead([emb EXCEPT !.clock = @ + emb.delay, !.delay = 0,
                                        !.i = @ + BatchSize])
    /\ UNCHANGED storeVars

\* a single text handed over without an array around it
BareText == [text |-> "hello"]
EmbInputs == {Texts(n) : n \in 0..MaxTexts} \cup {BareText}

NextEmb ==
    \/ \E apiKey \in JinaKeys, texts \in EmbInputs : GenerateEmbeddings(apiKey, texts)
    \/ \E apiKey \in JinaKeys : GenerateSingleEmbedding(apiKey, 1)
    \/ ProviderSettles
    \/ DelayElapses

SpecEmb == InitConc /\ [][NextEmb]_vars

\* axios.post settles within its timeout and setTimeout fires
SpecEmbLive == SpecEmb /\ WF_vars(ProviderSettles) /\ WF_vars(DelayElapses)

\* --------------------------------------------------------------- strings
\* the session store and startup, which ingestion and vector store do not touch
serverVars == <<now, env, servicesStarted, redisClient, redisStore, smRedis,
                sessionTTL, fallbackStorage, cleanupTimer, nextMessageId, pending,
                last, startup, calls>>

\* A string is the sequence of its UTF-16 code units, each written as a
\* one-character string.
Whitespace == {" ", "\n"}

\* String.prototype.charCodeAt for the characters in use
CharCode ==
    [c \in {" ", "\n", "-", "_", "0", "1", "2", "3", "4", "5", "6", "7", "8", "9",
            "E", "N", "S", "W", "a", "b", "c", "e", "i", "n", "o", "p", "s", "t",
            "u", "v", "w", "x"} |->
        CASE c = " " -> 32 [] c = "\n" -> 10 [] c = "-" -> 45 [] c = "_" -> 95
          [] c = "0" -> 48 [] c = "1" -> 49 [] c = "2" -> 50 [] c = "3" -> 51
          [] c = "4" -> 52 [] c = "5" -> 53 [] c = "6" -> 54 [] c = "7" -> 55
          [] c = "8" -> 56 [] c = "9" -> 57
          [] c = "E" -> 69 [] c = "N" -> 78 [] c = "S" -> 83 [] c = "W" -> 87
          [] c = "a" -> 97 [] c = "b" -> 98 [] c = "c" -> 99 [] c = "e" -> 101
          [] c = "i" -> 105 [] c = "n" -> 110 [] c = "o" -> 111 [] c = "p" -> 112
          [] c = "s" -> 115 [] c = "t" -> 116 [] c = "u" -> 117 [] c = "v" -> 118
          [] c = "w" -> 119 [] c = "x" -> 120]

\* String.prototype.toLowerCase
LowerOf(c) ==
    CASE c = "E" -> "e" [] c = "N" -> "n" [] c = "S" -> "s" [] c = "W" -> "w"
      [] OTHER -> c
ToLowerCase(s) == [k \in DOMAIN s |-> LowerOf(s[k])]

\* String.prototype.substring(start, end)
Substring(s, start, end) ==
    LET a == Min(Max(start, 0), Len(s))
        b == Min(Max(end, 0), Len(s))
    IN  SubSeq(s, Min(a, b) + 1, Max(a, b))

\* String.prototype.trim
Trim(s) ==
    IF \A k \in DOMAIN s : s[k] \in Whitespace
    THEN <<>>
    ELSE LET first == CHOOSE k \in 1..Len(s) :
                          /\ s[k] \notin Whitespace
                          /\ \A j \in 1..(k - 1) : s[j] \in Whitespace
             last_ == CHOOSE k \in 1..Len(s) :
                          /\ s[k] \notin Whitespace
                          /\ \A j \in (k + 1)..Len(s) : s[j] \in Whitespace
         IN  SubSeq(s, first, last_)

\* the decimal digits of a non-negative integer: `${index}`
RECURSIVE Digits(_)
Digits(n) ==
    LET d == <<"0", "1", "2", "3", "4", "5", "6", "7", "8", "9">>[(n % 10) + 1]
    IN  IF n < 10 THEN <<d>> ELSE Digits(n \div 10) \o <<d>>

\* content.split(" "): the words of a string, held as the string and the
\* positions of its separators (a string of n separators has n + 1 words)
Split(content) == [of |-> content, at |-> {k \in DOMAIN content : content[k] = " "}]
\* words.length
WordCount(words) == Cardinality(words.at) + 1
\* the position of the k-th separator, k >= 1
SeparatorAt(words, k) ==
    CHOOSE p \in words.at : Cardinality({q \in words.at : q <= p}) = k
\* words.slice(start, end).join(" "): from the first character of word start
\* to the last one of word end - 1 (words are counted from 0)
SliceJoin(words, start, end) ==
    LET s == SliceIndex(WordCount(words), start)
        e == SliceIndex(WordCount(words), end)
        from == IF s = 0 THEN 1 ELSE SeparatorAt(words, s) + 1
        to == IF e = WordCount(words) THEN Len(words.of)
              ELSE SeparatorAt(words, e) - 1
    IN  IF s < e THEN SubSeq(words.of, from, to) ELSE <<>>

\* --------------------------------------------------- the ingestion service
\* services/ingestion.js: removeDuplicates, chunkContent and
\* processArticlesForEmbedding.

\* mutant: the key keeps the title's case
TitleKey_CaseSensitive(article) == Substring(article.title, 0, KeyLength)

\* article.title.toLowerCase().substring(0, 50)
TitleKey(article) == Substring(ToLowerCase(article.title), 0, KeyLength)

\* articles.filter(...) with the Set of keys seen so far, from article k on
RECURSIVE FilterUnseen(_, _, _)
FilterUnseen(articles, k, seen) ==
    IF k > Len(articles) THEN <<>>
    ELSE IF TitleKey(articles[k]) \in seen
         THEN FilterUnseen(articles, k + 1, seen)
         ELSE <<articles[k]>> \o
              FilterUnseen(articles, k + 1, seen \cup {TitleKey(articles[k])})

removeDuplicates(articles) == Arr(FilterUnseen(articles.items, 1, {}))

\* chunkContent(content, maxChunkSize, overlap) at the head of its loop
NewChunker(content, maxChunkSize, overlap) ==
    [pc |-> "loop", content |-> content, maxChunkSize |-> maxChunkSize,
     overlap |-> overlap, words |-> Split(content), i |-> 0, chunks |-> <<>>,
     iterations |-> 0, ret |-> Null]

\* mutant: the windows do not overlap
ChunkStride_NoOverlap(c) == c.maxChunkSize

\* i += maxChunkSize - overlap
ChunkStride(c) == c.maxChunkSize - c.overlap

\* one test of the loop of chunkContent: an iteration, or the return
ChunkStep(c) ==
    IF c.i < WordCount(c.words)
    THEN LET chunk == SliceJoin(c.words, c.i, c.i + c.maxChunkSize)
         IN  [c EXCEPT !.chunks = IF Trim(chunk) # <<>> THEN Append(@, Trim(chunk))
                                  ELSE @,
                       !.i = @ + ChunkStride(c),
                       !.iterations = @ + 1]
    ELSE [c EXCEPT !.pc = "done",
                   !.ret = IF Len(c.chunks) > 0 THEN Arr(c.chunks)
                           ELSE Arr(<<c.content>>)]

\* the loop run to its end
RECURSIVE ChunkLoop(_)
ChunkLoop(c) == IF c.pc = "done" THEN c.ret ELSE ChunkLoop(ChunkStep(c))

chunkContent(content, maxChunkSize, overlap) ==
    ChunkLoop(NewChunker(content, maxChunkSize, overlap))

\* `${article.title}\n\n${article.content}`
FullContent(article) == article.title \o <<"\n", "\n">> \o article.content

\* `${article.url}-${index}`
ChunkId(article, index) == article.url \o <<"-">> \o Digits(index)

\* the chunks of one article: chunks.forEach((chunk, index) => push({...}))
ChunksOf(article) ==
    LET chunks == chunkContent(FullContent(article), DefaultMaxChunkSize,
                               DefaultOverlap).items
    IN  [index \in 1..Len(chunks) |->
           [id |-> ChunkId(article, index - 1),
            content |-> chunks[index],
            metadata |-> [title |-> article.title, url |-> article.url,
                          source |-> article.source,
                          publishedAt |-> ToISOString(article.publishedAt),
                          author |-> article.author,
                          description |-> article.description,
                          image |-> article.image,
                          chunkIndex |-> index - 1,
                          totalChunks |-> Len(chunks)]]]

\* for (const article of articles) { ... }, from article k on
RECURSIVE ProcessFrom(_, _, _)
ProcessFrom(articles, k, processedChunks) ==
    IF k > Len(articles) THEN processedChunks
    ELSE ProcessFrom(articles, k + 1,
                     processedChunks \o ChunksOf(articles[k]))

processArticlesForEmbedding(articles) == Arr(ProcessFrom(articles.items, 1, <<>>))

\* new Date(pubDate || Date.now()): a time, or Invalid Date when the text of
\* pubDate is no date
NewDate(t) == [time |-> t]
InvalidDate == [nan |-> TRUE]
IsValidDate(d) == "time" \in DOMAIN d

\* an article as fetchFromRSSFeeds builds it
Article(title, url, content) ==
    [title |-> title, content |-> content, url |-> url, source |-> "RSS Feed",
     publishedAt |-> NewDate(0), author |-> Null, description |-> content,
     image |-> Null]

\* article.publishedAt.toISOString() raises a RangeError on an Invalid Date,
\* and processArticlesForEmbedding catches nothing
ProcessingThrows(articles) ==
    \E k \in 1..Len(articles.items) : ~IsValidDate(articles.items[k].publishedAt)

\* n times the letter x
Xs(n) == [k \in 1..n |-> "x"]
\* a text of LongWords words, more than one chunk holds
LongContent == [k \in 1..(2 * LongWords - 1) |-> IF k % 2 = 1 THEN "w" ELSE " "]

\* what the feeds may deliver: three titles that differ in case only, two that
\* agree on their first 50 characters and one that differs from them at the
\* 50th; links that repeat, and an item without a link
FeedArticles ==
    {Article(<<"N", "e", "w", "s">>, <<"u">>, <<"a">>),
     Article(<<"N", "E", "W", "S">>, <<"v">>, <<"b">>),
     Article(<<"n", "e", "w", "s">>, <<"u">>, <<"c">>),
     Article(Xs(KeyLength) \o <<"a">>, <<"v">>, LongContent),
     Article(Xs(KeyLength) \o <<"b">>, <<"u">>, <<"b", " ", "c">>),
     Article(Xs(KeyLength - 1) \o <<"b">>, <<>>, <<"a">>)}

\* the lists of at most n articles
ArticleLists(n) == UNION {[1..k -> FeedArticles] : k \in 0..n}

\* fetchLatestNews(): what the sources delivered, deduplicated and limited
FetchLatestNews(allArticles) ==
    /\ ingestion.pc = "idle"
    /\ ingestion' = [pc |-> "fetched", allArticles |-> Arr(allArticles),
                     articles |-> Slice(removeDuplicates(Arr(allArticles)),
                                        0, MaxFetched),
                     previous |-> Null]
    /\ UNCHANGED <<serverVars, emb, chunker, pointId, qdrant, vstore, run, chat>>

\* processArticlesForEmbedding(articles) on what fetchLatestNews returned
ProcessArticlesForEmbedding ==
    /\ ingestion.pc = "fetched"
    /\ ingestion' = [pc |-> "processed", allArticles |-> ingestion.allArticles,
                     articles |-> ingestion.articles,
                     chunks |-> processArticlesForEmbedding(ingestion.articles),
                     previous |-> ingestion.previous]
    /\ UNCHANGED <<serverVars, emb, chunker, pointId, qdrant, vstore, run, chat>>

NextIngestion ==
    \/ \E allArticles \in ArticleLists(MaxArticles) : FetchLatestNews(allArticles)
    \/ ProcessArticlesForEmbedding

SpecIngestion == InitConc /\ [][NextIngestion]_vars

\* ------------------------------------------------ chunkContent, step by step
\* texts of no, one, two, three and four words, one of a space alone, and
\* texts with two spaces in a row, a space at the end, and a title line
ChunkTexts ==
    {<<>>, <<" ">>, <<"a">>, <<"a", " ", "b">>, <<"a", " ", "b", " ", "c">>,
     <<"a", " ", "b", " ", "c", " ", "a">>,
     <<"a", " ", " ", "b">>, <<"a", " ", "b", " ">>,
     <<"a", "\n", "\n", "b", " ", "c">>}

\* chunkContent(content, maxChunkSize, overlap) is called
ChunkContent(content, maxChunkSize, overlap) ==
    /\ chunker.pc = "idle"
    /\ chunker' = NewChunker(content, maxChunkSize, overlap)
    /\ UNCHANGED <<serverVars, emb, ingestion, pointId, qdrant, vstore, run, chat>>

\* the loop is tested once more: another chunk, or the return
ChunkIteration ==
    /\ chunker.pc = "loop"
    /\ chunker.iterations < MaxIterations
    /\ chunker' = ChunkStep(chunker)
    /\ UNCHANGED <<serverVars, emb, ingestion, pointId, qdrant, vstore, run, chat>>

NextChunker ==
    \/ \E content \in ChunkTexts, maxChunkSize \in 1..MaxChunkParam,
          overlap \in 0..MaxChunkParam : ChunkContent(content, maxChunkSize, overlap)
    \/ ChunkIteration

SpecChunker == InitConc /\ [][NextChunker]_vars

\* ------------------------------------------------------ point identifiers
\* generateValidPointId of services/vectorStore.js.  A 32-bit integer is held
\* as its two 16-bit halves, [hi, lo] for the bit pattern hi * 2^16 + lo; it
\* is negative when bit 31 is set.
Half == 2^16
Int32(hi, lo) == [hi |-> hi % Half, lo |-> lo % Half]
IsNegative(h) == h.hi >= Half \div 2

\* hash << 5
ShiftLeft5(h) == Int32(h.hi * 32 + (h.lo * 32) \div Half, h.lo * 32)

\* hash = (hash << 5) - hash + char; hash = hash & hash
HashStep(h, char) ==
    LET low == ShiftLeft5(h).lo - h.lo + char
        carry == (low - (low % Half)) \div Half
    IN  Int32(ShiftLeft5(h).hi - h.hi + carry, low)

\* mutant: the sign is kept
MathAbs_KeepsSign(h) == h

\* Math.abs(hash): the magnitude, which is 2^31 at most
MathAbs(h) ==
    IF IsNegative(h)
    THEN [hi |-> Half - h.hi - (IF h.lo = 0 THEN 0 ELSE 1), lo |-> (Half - h.lo) % Half]
    ELSE h

\* for (let i = 0; i < originalId.length; i++) { ... }, from character i on
RECURSIVE HashFrom(_, _, _)
HashFrom(originalId, i, hash) ==
    IF i > Len(originalId) THEN hash
    ELSE HashFrom(originalId, i + 1, HashStep(hash, CharCode[originalId[i]]))

generateValidPointId(originalId) == MathAbs(HashFrom(originalId, 1, Int32(0, 0)))

\* identifiers of at most n characters of a link, a dash and a digit
IdLetters == {"u", "-", "0"}
OriginalIds(n) == UNION {[1..k -> IdLetters] : k \in 0..n}

\* generateValidPointId(originalId) is called, and called again
GenerateValidPointId(originalId) ==
    /\ pointId.pc \in {"idle", "done"}
    /\ pointId.pc = "done" => originalId = pointId.originalId /\ pointId.calls = 1
    /\ pointId' = [pc |-> "done", originalId |-> originalId,
                   calls |-> IF pointId.pc = "idle" THEN 1 ELSE 2,
                   first |-> IF pointId.pc = "idle"
                             THEN generateValidPointId(originalId) ELSE pointId.first,
                   ret |-> generateValidPointId(originalId)]
    /\ UNCHANGED <<serverVars, emb, ingestion, chunker, qdrant, vstore, run, chat>>

NextPointId ==
    \E originalId \in OriginalIds(MaxIdLength) : GenerateValidPointId(originalId)

SpecPointId == InitConc /\ [][NextPointId]_vars

\* ------------------------------------------------------ the vector database
\* The Qdrant server behind @qdrant/js-client-rest, as far as the service uses
\* it: one collection, the points in it, and how many times the collection
\* was created.  A request takes effect when the call that made it resumes.
\* A vector is written by its first two components, the others being 0, and a
\* score is a cosine in hundredths.
QdrantUrls == {"", "http://qdrant:6333"}        \* process.env.QDRANT_URL
QdrantClient == [client |-> "qdrant"]           \* new QdrantClient({ url, apiKey })
CollectionConfig == [size |-> VectorSize, distance |-> "Cosine"]

\* an argument given, or left out
Arg(x) == [value |-> x]
OrDefault(x, default) == IF x = Null THEN default ELSE x.value

\* createCollection on the server
QdrantCreate(db) ==
    [db EXCEPT !.collection = CollectionConfig, !.created = @ + 1]

\* the points of a batch as the server keeps them: the last one of each id
Written(batch) ==
    {batch[k] : k \in {k \in DOMAIN batch :
                         \A j \in (k + 1)..Len(batch) : batch[j].id # batch[k].id}}

\* mutant: the server stores what it is sent under identifiers of its own
QdrantUpsert_Appends(db, batch) ==
    [db EXCEPT !.points = @ \cup
        {[batch[k] EXCEPT !.id = [hi |-> 0, lo |-> Cardinality(db.points) + k]] :
            k \in DOMAIN batch}]

\* upsert on the server: a point replaces the point of the same id
QdrantUpsert(db, batch) ==
    [db EXCEPT !.points =
        {p \in @ : \A k \in DOMAIN batch : batch[k].id # p.id} \cup Written(batch)]

\* cosine similarity, in hundredths
Dot(q, v) == q[1] * v[1] + q[2] * v[2]
Norm(v) == CHOOSE n \in 0..Dot(v, v) : n * n = Dot(v, v)
Score(q, v) == (100 * Dot(q, v)) \div (Norm(q) * Norm(v))

\* search on the server: the points that score score_threshold or more, best
\* first, limit of them at most, each with its payload; points of equal
\* score come in any order
QdrantSearch(db, vector, limit, score_threshold) ==
    LET hits == {p \in db.points : Score(vector, p.vector) >= score_threshold}
        n == Cardinality(hits)
        rankings == {f \in [1..n -> hits] :
                        /\ \A j, k \in 1..n : j # k => f[j] # f[k]
                        /\ \A j, k \in 1..n :
                               j < k => Score(vector, f[j].vector)
                                        >= Score(vector, f[k].vector)}
    IN  {[k \in 1..Min(Max(limit, 0), n) |->
            [id |-> f[k].id, score |-> Score(vector, f[k].vector),
             payload |-> f[k].payload]] : f \in rankings}

\* getCollection on the server
QdrantInfo(db) ==
    [vectors_count |-> Cardinality(db.points),
     indexed_vectors_count |-> Cardinality(db.points),
     points_count |-> Cardinality(db.points), status |-> "green"]

\* -------------------------------------------------- the vector store service
\* services/vectorStore.js.  An instance is where its initialize() stands
\* (the constructor does not await it), its client, and the call in progress.
NoOp == [name |-> "none", pc |-> "idle"]
Constructed(v) == vstore[v].pc # "none"

\* mutant: a failed initialization keeps the client
CatchInitialize_KeepsClient(s, failure) ==
    [s EXCEPT !.pc = "done", !.failure = failure]

\* the catch of initialize(): this.client = null
CatchInitialize(s, failure) ==
    [s EXCEPT !.client = Null, !.pc = "done", !.failure = failure]

\* ensureCollection() up to its first await
ensureCollection(s) ==
    IF s.client = Null THEN [s EXCEPT !.pc = "done"]
    ELSE [s EXCEPT !.pc = "await_list"]

\* initialize() up to its first await
initialize(s) ==
    IF s.url = ""
    THEN [s EXCEPT !.pc = "done", !.failure = "no_url"]
    ELSE [s EXCEPT !.client = QdrantClient, !.pc = "await_test"]

\* new VectorStoreService()
Construct(v, url) ==
    /\ ~Constructed(v)
    /\ \A w \in Instances : Constructed(w) => vstore[w].url = url
    /\ vstore' = [vstore EXCEPT ![v] =
                    initialize([pc |-> "new", url |-> url, client |-> Null,
                                failure |-> "none", op |-> NoOp])]
    /\ UNCHANGED <<serverVars, emb, ingestion, chunker, pointId, qdrant, run, chat>>

\* await this.client.getCollections() of initialize() settles
TestSettles(v, ok) ==
    /\ vstore[v].pc = "await_test"
    /\ vstore' = [vstore EXCEPT ![v] = IF ok THEN ensureCollection(@)
                                       ELSE CatchInitialize(@, "test")]
    /\ UNCHANGED <<serverVars, emb, ingestion, chunker, pointId, qdrant, run, chat>>

\* await this.client.getCollections() of ensureCollection() settles: the
\* collection is there, or its creation is requested
ListSettles(v, ok) ==
    /\ vstore[v].pc = "await_list"
    /\ vstore' = [vstore EXCEPT ![v] =
                    IF ~ok THEN CatchInitialize(@, "list")
                    ELSE IF qdrant.collection # Null THEN [@ EXCEPT !.pc = "done"]
                    ELSE [@ EXCEPT !.pc = "await_create"]]
    /\ UNCHANGED <<serverVars, emb, ingestion, chunker, pointId, qdrant, run, chat>>

\* await this.client.createCollection(...) settles: the server creates the
\* collection, or refuses because it exists, or the request fails
CreateSettles(v, ok) ==
    /\ vstore[v].pc = "await_create"
    /\ IF ok /\ qdrant.collection = Null
       THEN /\ qdrant' = QdrantCreate(qdrant)
            /\ vstore' = [vstore EXCEPT ![v].pc = "done"]
       ELSE /\ qdrant' = qdrant
            /\ vstore' = [vstore EXCEPT ![v] =
                            CatchInitialize(@, IF ok THEN "exists" ELSE "create")]
    /\ UNCHANGED <<serverVars, emb, ingestion, chunker, pointId, run, chat>>

\* a call of an operation, as it is entered
NewOp(s, name) ==
    [name |-> name, pc |-> "start", ret |-> Null, thrown |-> FALSE, requests |-> 0,
     log |-> <<>>, points |-> <<>>, i |-> 0, vector |-> <<>>, limit |-> 0,
     threshold |-> 0, args |-> Null,
     initialized |-> [pc |-> s.pc, failure |-> s.failure]]
Returns(op, value) == [op EXCEPT !.pc = "returned", !.ret = value]
Requests(op, event) ==
    [op EXCEPT !.pc = "await", !.requests = @ + 1, !.log = Append(@, event)]
CanCall(v) == Constructed(v) /\ vstore[v].op.pc \in {"idle", "returned"}
Awaits(v, name) == Constructed(v) /\ vstore[v].op.name = name /\ vstore[v].op.pc = "await"

\* vectors.map((vector, index) => ({ id, vector, payload }))
UpsertPoints(vectors) ==
    [index \in 1..Len(vectors.items) |->
        LET vector == vectors.items[index]
        IN  [id |-> generateValidPointId(
                        IF vector.id # <<>> THEN vector.id
                        ELSE <<"p", "o", "i", "n", "t", "_">> \o Digits(index - 1)),
             vector |-> vector.embedding,
             payload |-> vector.metadata @@ [content |-> vector.content]]]

\* const batch = points.slice(i, i + batchSize)
UpsertBatch(op) == Slice(Arr(op.points), op.i, op.i + UpsertBatchSize).items

\* mutant: a failed write is logged and the call reports success
UpsertCaught_ReportsSuccess(op) ==
    Returns([op EXCEPT !.log = Append(@, [ev |-> "failed", from |-> op.i])], TRUE)

\* mutant: a failed write is logged and the loop goes on with the next batch
UpsertCaught_TriesNext(op) ==
    Requests([op EXCEPT !.log = Append(@, [ev |-> "failed", from |-> op.i]),
                        !.i = @ + UpsertBatchSize],
             [ev |-> "upsert", from |-> op.i + UpsertBatchSize, size |-> 0])

\* the catch of upsertVectors: return false
UpsertCaught(op) ==
    Returns([op EXCEPT !.log = Append(@, [ev |-> "failed", from |-> op.i])], FALSE)

\* the for loop of upsertVectors at its test: the next batch is sent (through
\* this.client, as it is by now), or the call returns true
UpsertLoop(s, op) ==
    IF op.i < Len(op.points)
    THEN IF s.client = Null THEN UpsertCaught(op)
         ELSE Requests(op, [ev |-> "upsert", from |-> op.i,
                            size |-> Len(UpsertBatch(op))])
    ELSE Returns(op, TRUE)

\* upsertVectors(vectors) up to its first await
upsertVectors(s, vectors) ==
    IF s.client = Null
    THEN Returns([NewOp(s, "upsertVectors") EXCEPT !.args = vectors], FALSE)
    ELSE UpsertLoop(s, [NewOp(s, "upsertVectors") EXCEPT
                           !.args = vectors, !.points = UpsertPoints(vectors)])

\* mutant: the threshold asked for is not handed on
searchSimilar_DefaultThreshold(s, queryVector, limit, threshold) ==
    IF s.client = Null
    THEN Returns([NewOp(s, "searchSimilar") EXCEPT
                     !.args = [queryVector |-> queryVector, limit |-> limit,
                               threshold |-> threshold]],
                 Arr(<<>>))
    ELSE Requests([NewOp(s, "searchSimilar") EXCEPT
                      !.args = [queryVector |-> queryVector, limit |-> limit,
                                threshold |-> threshold],
                      !.vector = queryVector,
                      !.limit = OrDefault(limit, DefaultSearchLimit),
                      !.threshold = DefaultThreshold],
                  [ev |-> "search"])

\* searchSimilar(queryVector, limit = 5, threshold = 0.7) up to its await
searchSimilar(s, queryVector, limit, threshold) ==
    IF s.client = Null
    THEN Returns([NewOp(s, "searchSimilar") EXCEPT
                     !.args = [queryVector |-> queryVector, limit |-> limit,
                               threshold |-> threshold]],
                 Arr(<<>>))
    ELSE Requests([NewOp(s, "searchSimilar") EXCEPT
                      !.args = [queryVector |-> queryVector, limit |-> limit,
                                threshold |-> threshold],
                      !.vector = queryVector,
                      !.limit = OrDefault(limit, DefaultSearchLimit),
                      !.threshold = OrDefault(threshold, DefaultThreshold)],
                  [ev |-> "search"])

\* searchResult.map((result) => ({ id, score, content, metadata }))
SearchResults(searchResult) ==
    Arr([k \in DOMAIN searchResult |->
           LET result == searchResult[k]
           IN  [id |-> result.id, score |-> result.score,
                content |-> result.payload.content,
                metadata |-> [title |-> result.payload.title,
                              url |-> result.payload.url,
                              source |-> result.payload.source,
                              publishedAt |-> result.payload.publishedAt,
                              author |-> result.payload.author,
                              description |-> result.payload.description,
                              image |-> result.payload.image]]])

\* getCollectionInfo() up to its await
getCollectionInfo(s) ==
    IF s.client = Null THEN Returns(NewOp(s, "getCollectionInfo"), Null)
    ELSE Requests(NewOp(s, "getCollectionInfo"), [ev |-> "info"])

storeOthers == <<serverVars, emb, ingestion, chunker, pointId, run, chat>>

UpsertVectors(v, vectors) ==
    /\ CanCall(v)
    /\ vstore' = [vstore EXCEPT ![v].op = upsertVectors(vstore[v], vectors)]
    /\ UNCHANGED <<storeOthers, qdrant>>

\* await this.client.upsert(...) settles: the batch is written and the loop
\* goes on, or the write has failed
UpsertSettles(v, ok) ==
    /\ Awaits(v, "upsertVectors")
    /\ LET op == vstore[v].op
       IN  IF ok /\ qdrant.collection # Null
           THEN /\ qdrant' = QdrantUpsert(qdrant, UpsertBatch(op))
                /\ vstore' = [vstore EXCEPT ![v].op =
                      UpsertLoop(vstore[v],
                                 [op EXCEPT !.log = Append(@, [ev |-> "written",
                                                               from |-> op.i]),
                                            !.i = @ + UpsertBatchSize])]
           ELSE /\ qdrant' = qdrant
                /\ vstore' = [vstore EXCEPT ![v].op = UpsertCaught(op)]
    /\ UNCHANGED storeOthers

SearchSimilar(v, queryVector, limit, threshold) ==
    /\ CanCall(v)
    /\ vstore' = [vstore EXCEPT ![v].op =
                    searchSimilar(vstore[v], queryVector, limit, threshold)]
    /\ UNCHANGED <<storeOthers, qdrant>>

\* await this.client.search(...) settles
SearchSettles(v, ok) ==
    /\ Awaits(v, "searchSimilar")
    /\ LET op == vstore[v].op
       IN  IF ok /\ qdrant.collection # Null
           THEN \E searchResult \in QdrantSearch(qdrant, op.vector, op.limit,
                                                 op.threshold) :
                    vstore' = [vstore EXCEPT ![v].op =
                                 Returns(op, SearchResults(searchResult))]
           ELSE vstore' = [vstore EXCEPT ![v].op =
                   Returns([op EXCEPT !.log = Append(@, [ev |-> "failed"])],
                           Arr(<<>>))]
    /\ UNCHANGED <<storeOthers, qdrant>>

GetCollectionInfo(v) ==
    /\ CanCall(v)
    /\ vstore' = [vstore EXCEPT ![v].op = getCollectionInfo(vstore[v])]
    /\ UNCHANGED <<storeOthers, qdrant>>

\* await this.client.getCollection(...) settles
InfoSettles(v, ok) ==
    /\ Awaits(v, "getCollectionInfo")
    /\ LET op == vstore[v].op
           info == QdrantInfo(qdrant)
       IN  vstore' = [vstore EXCEPT ![v].op =
              IF ok /\ qdrant.collection # Null
              THEN Returns(op, [name |-> "news_articles",
                                vectorsCount |-> info.vectors_count,
                                indexedVectorsCount |-> info.indexed_vectors_count,
                                pointsCount |-> info.points_count,
                                status |-> info.status])
              ELSE Returns([op EXCEPT !.log = Append(@, [ev |-> "failed"])], Null)]
    /\ UNCHANGED <<storeOthers, qdrant>>

\* ----------------------------------------------------- the store harness
\* what the callers hand over: two chunks of two articles, and a vector
\* without an identifier; two query vectors; limits and thresholds given or
\* left to their defaults
Metadata(url) ==
    [title |-> <<"N", "e", "w", "s">>, url |-> url, source |-> "RSS Feed",
     publishedAt |-> ToISOString(0), author |-> Null, description |-> <<"a">>,
     image |-> Null, chunkIndex |-> 0, totalChunks |-> 1]
Vector(id, url, embedding) ==
    [id |-> id, content |-> <<"a">>, embedding |-> embedding, metadata |-> Metadata(url)]
StoreVectors ==
    {Arr(<<Vector(<<"u", "-", "0">>, <<"u">>, <<3, 4>>),
           Vector(<<"v", "-", "0">>, <<"v">>, <<4, 3>>)>>),
     Arr(<<Vector(<<>>, <<>>, <<1, 0>>)>>)}
Queries == {<<1, 0>>, <<3, 4>>}
Limits == {Null, Arg(1)}
Thresholds == {Null, Arg(90)}
\* the ingestion script's instance writes, a chat request's instance searches
Writers == {"v1"}
Searchers == {"v2"}

NextStore ==
    \/ \E v \in Instances, url \in QdrantUrls : Construct(v, url)
    \/ \E v \in Instances, ok \in BOOLEAN : TestSettles(v, ok)
    \/ \E v \in Instances, ok \in BOOLEAN : ListSettles(v, ok)
    \/ \E v \in Instances, ok \in BOOLEAN : CreateSettles(v, ok)
    \/ \E v \in Writers, vectors \in StoreVectors : UpsertVectors(v, vectors)
    \/ \E v \in Instances, ok \in BOOLEAN : UpsertSettles(v, ok)
    \/ \E v \in Searchers, queryVector \in Queries, limit \in Limits,
          threshold \in Thresholds : SearchSimilar(v, queryVector, limit, threshold)
    \/ \E v \in Instances, ok \in BOOLEAN : SearchSettles(v, ok)
    \/ \E v \in Writers : GetCollectionInfo(v)
    \/ \E v \in Instances, ok \in BOOLEAN : InfoSettles(v, ok)

SpecStore == InitConc /\ [][NextStore]_vars

\* ---------------------------------------------------- the upsert harness
\* the writer is handed lists of no, one, a batch, a batch and one, and
\* MaxPoints vectors, the chunks of one long article
ManyVectors(n) ==
    Arr([j \in 1..n |-> Vector(<<"u", "-">> \o Digits(j - 1), <<"u">>, <<3, 4>>)])
UpsertSizes == {0, 1, UpsertBatchSize, UpsertBatchSize + 1, MaxPoints}
UpsertInputs == {ManyVectors(n) : n \in UpsertSizes}

NextUpsert ==
    \/ \E v \in Instances, url \in QdrantUrls : Construct(v, url)
    \/ \E v \in Instances, ok \in BOOLEAN : TestSettles(v, ok)
    \/ \E v \in Instances, ok \in BOOLEAN : ListSettles(v, ok)
    \/ \E v \in Instances, ok \in BOOLEAN : CreateSettles(v, ok)
    \/ \E v \in Writers, vectors \in UpsertInputs : UpsertVectors(v, vectors)
    \/ \E v \in Writers, ok \in BOOLEAN : UpsertSettles(v, ok)

SpecUpsert == InitConc /\ [][NextUpsert]_vars

\* ------------------------------------------------- ingesting, and again
\* mutant: the records flagged failed are left out
VectorData_SkipsFailed(chunks, embeddings) ==
    Arr(SelectSeq(
        [index \in 1..Len(chunks.items) |->
            [id |-> chunks.items[index].id,
             content |-> chunks.items[index].content,
             embedding |-> IF /\ index <= Len(embeddings.items)
                              /\ "embedding" \in DOMAIN embeddings.items[index]
                              /\ "failed" \notin DOMAIN embeddings.items[index]
                           THEN embeddings.items[index].embedding ELSE <<>>,
             metadata |-> chunks.items[index].metadata]],
        LAMBDA item : Len(item.embedding) > 0))

\* scripts/ingest.js, step 4: the chunks paired with their embeddings
\* chunks.map((chunk, index) => ({ ..., embedding: embeddings[index]?.embedding || [] }))
\*       .filter((item) => item.embedding.length > 0)
VectorData(chunks, embeddings) ==
    Arr(SelectSeq(
        [index \in 1..Len(chunks.items) |->
            [id |-> chunks.items[index].id,
             content |-> chunks.items[index].content,
             embedding |-> IF /\ index <= Len(embeddings.items)
                              /\ "embedding" \in DOMAIN embeddings.items[index]
                           THEN embeddings.items[index].embedding ELSE <<>>,
             metadata |-> chunks.items[index].metadata]],
        LAMBDA item : Len(item.embedding) > 0))

\* one embedding record per chunk, as generateEmbeddings is to return them
RecordPerChunk(chunks) ==
    Arr([j \in 1..Len(chunks.items) |-> [embedding |-> <<3, 4>>, index |-> (j - 1) % BatchSize]])

\* the identifiers in a list of chunks or points, and those in the index
IdsOf(items) == [k \in DOMAIN items |-> items[k].id]
IndexIds == {p.id : p \in qdrant.points}

\* the instance of the run: each run of the script constructs its own
StoreOfRun == IF ingestion.previous = Null THEN "v1" ELSE "v2"

\* vectorStore.upsertVectors(vectorData) with the chunks of the run
StoreChunks(v) ==
    /\ ingestion.pc = "processed"
    /\ v = StoreOfRun
    /\ CanCall(v)
    /\ vstore' = [vstore EXCEPT ![v].op =
                    upsertVectors(vstore[v],
                                  VectorData(ingestion.chunks,
                                             RecordPerChunk(ingestion.chunks)))]
    /\ ingestion' = [ingestion EXCEPT !.pc = "storing"]
    /\ UNCHANGED <<serverVars, emb, chunker, pointId, qdrant, run, chat>>

\* the script is run once more, with a VectorStoreService of its own, and
\* the sources deliver the same articles
FetchLatestNewsAgain(v) ==
    /\ ingestion.pc = "storing"
    /\ ingestion.previous = Null
    /\ v = StoreOfRun
    /\ vstore[v].op.pc = "returned"
    /\ ~Constructed("v2")
    /\ ingestion' = [pc |-> "fetched", allArticles |-> ingestion.allArticles,
                     articles |-> Slice(removeDuplicates(ingestion.allArticles),
                                        0, MaxFetched),
                     previous |-> [chunks |-> IdsOf(ingestion.chunks.items),
                                   points |-> IdsOf(vstore[v].op.points),
                                   success |-> vstore[v].op.ret,
                                   initialized |-> vstore[v].op.initialized,
                                   index |-> IndexIds]]
    /\ vstore' = [vstore EXCEPT !["v2"] =
                    initialize([pc |-> "new", url |-> vstore[v].url, client |-> Null,
                                failure |-> "none", op |-> NoOp])]
    /\ UNCHANGED <<serverVars, emb, chunker, pointId, qdrant, run, chat>>

NextReingest ==
    \/ \E url \in QdrantUrls : Construct("v1", url)
    \/ \E v \in Instances, ok \in BOOLEAN : TestSettles(v, ok)
    \/ \E v \in Instances, ok \in BOOLEAN : ListSettles(v, ok)
    \/ \E v \in Instances, ok \in BOOLEAN : CreateSettles(v, ok)
    \/ \E allArticles \in ArticleLists(MaxReingested) : FetchLatestNews(allArticles)
    \/ ProcessArticlesForEmbedding
    \/ \E v \in Instances : StoreChunks(v)
    \/ \E v \in Instances, ok \in BOOLEAN : UpsertSettles(v, ok)
    \/ \E v \in Instances : FetchLatestNewsAgain(v)

SpecReingest == InitConc /\ [][NextReingest]_vars

\* ---------------------------------------------------- the ingestion script
\* scripts/ingest.js.  A run of runIngestion is at one of its awaits, has
\* called process.exit(1), or is over.  It uses the embeddings run emb and the
\* vector store instance v1: the embeddings it got are emb.ret, and the
\* vectorData it hands over are the arguments of the call of upsertVectors,
\* of which the run keeps the length (prepared).
RunStore == "v1"

\* the state of a run
NewIngestion(articles, chunks) ==
    [pc |-> "start", code |-> 0, articles |-> articles, chunks |-> chunks,
     texts |-> Arr([k \in 1..Len(chunks.items) |-> chunks.items[k].content]),
     prepared |-> 0, collectionInfo |-> Null, summary |-> Null, thrown |-> FALSE]

\* process.exit(1)
Exit1(r) == [r EXCEPT !.pc = "exit", !.code = 1]
\* catch (error) { logger.error(...); process.exit(1); }
CatchIngestion(r) == Exit1([r EXCEPT !.thrown = TRUE])

\* runIngestion() from the fetched articles to the await of generateEmbeddings
StartIngestion(url, apiKey, articles, chunks) ==
    /\ vstore' = [vstore EXCEPT ![RunStore] =
                    initialize([pc |-> "new", url |-> url, client |-> Null,
                                failure |-> "none", op |-> NoOp])]
    /\ IF Len(articles.items) = 0
       THEN /\ run' = Exit1(NewIngestion(articles, Arr(<<>>)))
            /\ emb' = emb
       ELSE IF ProcessingThrows(articles)
       THEN /\ run' = CatchIngestion(NewIngestion(articles, Arr(<<>>)))
            /\ emb' = emb
       ELSE /\ run' = [NewIngestion(articles, chunks) EXCEPT !.pc = "await_embeddings"]
            /\ emb' = generateEmbeddings(
                          NewRun("generateEmbeddings", apiKey,
                                 NewIngestion(articles, chunks).texts))
    /\ UNCHANGED <<serverVars, ingestion, chunker, pointId, qdrant, chat>>

\* runIngestion(): the services are constructed, the articles fetched and
\* chunked, and the embeddings asked for
RunIngestion(url, apiKey, allArticles) ==
    /\ run.pc = "idle"
    /\ emb = EmbIdle
    /\ ~Constructed(RunStore)
    /\ StartIngestion(url, apiKey,
                      Slice(removeDuplicates(Arr(allArticles)), 0, MaxFetched),
                      processArticlesForEmbedding(
                          Slice(removeDuplicates(Arr(allArticles)), 0, MaxFetched)))

\* generateEmbeddings has returned: exit without embeddings, else step 4 and
\* the call of upsertVectors
EmbeddingsReturned ==
    /\ run.pc = "await_embeddings"
    /\ emb.pc = "done"
    /\ IF Len(emb.ret.items) = 0
       THEN /\ run' = Exit1(run)
            /\ vstore' = vstore
       ELSE /\ run' = [run EXCEPT !.pc = "await_upsert",
                                  !.prepared = Len(VectorData(run.chunks, emb.ret).items)]
            /\ vstore' = [vstore EXCEPT ![RunStore].op =
                            upsertVectors(vstore[RunStore],
                                          VectorData(run.chunks, emb.ret))]
    /\ UNCHANGED <<serverVars, emb, ingestion, chunker, pointId, qdrant, chat>>

\* upsertVectors has returned: exit on false, else getCollectionInfo is called
UpsertReturned ==
    /\ run.pc = "await_upsert"
    /\ vstore[RunStore].op.pc = "returned"
    /\ IF vstore[RunStore].op.ret = FALSE
       THEN /\ run' = Exit1(run)
            /\ vstore' = vstore
       ELSE /\ run' = [run EXCEPT !.pc = "await_info"]
            /\ vstore' = [vstore EXCEPT ![RunStore].op =
                            getCollectionInfo(vstore[RunStore])]
    /\ UNCHANGED <<serverVars, emb, ingestion, chunker, pointId, qdrant, chat>>

\* getCollectionInfo has returned: the summary is logged and the run is over
InfoReturned ==
    /\ run.pc = "await_info"
    /\ vstore[RunStore].op.pc = "returned"
    /\ run' = [run EXCEPT !.pc = "done", !.collectionInfo = vstore[RunStore].op.ret,
                          !.summary = [articles |-> Len(run.articles.items),
                                       chunks |-> Len(run.chunks.items),
                                       embeddings |-> Len(emb.ret.items),
                                       vectors |-> run.prepared]]
    /\ UNCHANGED <<serverVars, emb, ingestion, chunker, pointId, qdrant, vstore, chat>>

\* the k-th article of the feeds, with a title and a link of its own
RunArticle(k) == Article(<<"N">> \o Digits(k), <<"u">> \o Digits(k), <<"a", " ", "b">>)
\* what the sources deliver to the run: nothing, one article, more chunks
\* than one embeddings batch holds, or two articles of which the second has
\* a pubDate that is no date
RunFeeds ==
    {[k \in 1..n |-> RunArticle(k)] : n \in {0, 1, RunArticles}}
    \cup {<<RunArticle(1), [RunArticle(2) EXCEPT !.publishedAt = InvalidDate]>>}

NextPipeline ==
    \/ \E url \in QdrantUrls, apiKey \in JinaKeys, allArticles \in RunFeeds :
           RunIngestion(url, apiKey, allArticles)
    \/ ProviderSettles
    \/ DelayElapses
    \/ \E ok \in BOOLEAN : TestSettles(RunStore, ok)
    \/ \E ok \in BOOLEAN : ListSettles(RunStore, ok)
    \/ \E ok \in BOOLEAN : CreateSettles(RunStore, ok)
    \/ EmbeddingsReturned
    \/ \E ok \in BOOLEAN : UpsertSettles(RunStore, ok)
    \/ UpsertReturned
    \/ \E ok \in BOOLEAN : InfoSettles(RunStore, ok)
    \/ InfoReturned

SpecPipeline == InitConc /\ [][NextPipeline]_vars

\* ------------------------------------------------------- the chat service
\* services/chatService.js.  Every chat request makes a ChatService of its
\* own (routes/chat.js), which makes an EmbeddingsService and a
\* VectorStoreService of its own; generateResponse is at the await of
\* getRelevantContext (first the embedding, then the search), at the await
\* of the model, or over.
GeminiKeys == {"", "gemini_key"}    \* process.env.GEMINI_API_KEY: unset or set
ChatStore == "v2"                   \* this.vectorStore of the ChatService
GenerativeModel == [model |-> "gemini-1.5-flash"]
PromptContentChars == 800           \* buildPrompt: characters of a result's content
SnippetChars == 200                 \* sources: characters of a result's content
ContextLimit == 5                   \* getRelevantContext: results asked for
ContextThreshold == 30              \* getRelevantContext: threshold 0.3
Ellipsis == <<".", ".", ".">>
NoUsage == [promptTokens |-> 0, completionTokens |-> 0, totalTokens |-> 0]

\* new Date(publishedAt).toLocaleDateString()
ToLocaleDateString(d) ==
    IF IsValidDate(d) THEN [localeDate |-> d.time] ELSE [text |-> "Invalid Date"]

\* one block of RELEVANT NEWS CONTEXT: source number, source and title, the
\* publishing day, the content cut to 800 characters and "...", the URL
SourceBlock(ctx, index) ==
    [number |-> index + 1,
     source |-> ctx.metadata.source,
     title |-> ctx.metadata.title,
     published |-> ToLocaleDateString(NewDate(DateGetTime(ctx.metadata.publishedAt))),
     content |-> Substring(ctx.content, 0, PromptContentChars) \o Ellipsis,
     url |-> ctx.metadata.url]

\* buildPrompt(message, context = []): the guidelines, a block per result in
\* result order, the user's question
buildPrompt(message, context) ==
    [guidelines |-> "news assistant",
     context |-> [k \in 1..Len(context.items) |-> SourceBlock(context.items[k], k - 1)],
     question |-> message]

\* mutant: the snippet is the whole content
Citation_WholeContent(ctx) ==
    [title |-> ctx.metadata.title, url |-> ctx.metadata.url,
     source |-> ctx.metadata.source, publishedAt |-> ctx.metadata.publishedAt,
     snippet |-> ctx.content \o Ellipsis, score |-> ctx.score]

\* context.map((ctx) => ({ title, url, source, publishedAt, snippet, score }))
Citation(ctx) ==
    [title |-> ctx.metadata.title, url |-> ctx.metadata.url,
     source |-> ctx.metadata.source, publishedAt |-> ctx.metadata.publishedAt,
     snippet |-> Substring(ctx.content, 0, SnippetChars) \o Ellipsis,
     score |-> ctx.score]
Sources(context) ==
    Arr([k \in 1..Len(context.items) |-> Citation(context.items[k])])

\* getMockResponse(message): responses[Math.floor(Math.random() * 2)]
getMockResponse(message, choice) ==
    [content |-> [demo |-> choice, message |-> message], sources |-> Arr(<<>>),
     usage |-> NoUsage]
MockChoices == {0, 1}

\* mutant: a record that carries the failed flag is not searched with
HasEmbedding_NotFailed(messageEmbedding) ==
    /\ messageEmbedding # Null
    /\ "embedding" \in DOMAIN messageEmbedding
    /\ "failed" \notin DOMAIN messageEmbedding

\* !(!messageEmbedding || !messageEmbedding.embedding)
HasEmbedding(messageEmbedding) ==
    /\ messageEmbedding # Null
    /\ "embedding" \in DOMAIN messageEmbedding

\* new ChatService(): initialize() leaves this.model null without a key
NewChat(geminiKey) ==
    [pc |-> "constructed",
     model |-> IF geminiKey = "" THEN Null ELSE GenerativeModel,
     message |-> Null, context |-> Null, prompt |-> Null, ret |-> Null,
     thrown |-> FALSE, modelFailed |-> FALSE]

\* return { content, sources, usage } / return this.getMockResponse(message)
ChatReturns(c, response) == [c EXCEPT !.pc = "done", !.ret = response]

\* getRelevantContext has returned context: the prompt is built and
\* this.model.generateContent(prompt) is awaited
AskModel(c, context) ==
    [c EXCEPT !.pc = "await_model", !.context = context,
              !.prompt = buildPrompt(c.message, context)]

\* mutant: a failure of the model is passed on to the caller
ModelFailed_Rethrows(c, choice) ==
    [c EXCEPT !.pc = "done", !.thrown = TRUE, !.modelFailed = TRUE]

\* the catch of generateResponse
ModelFailed(c, choice) ==
    ChatReturns([c EXCEPT !.modelFailed = TRUE], getMockResponse(c.message, choice))

\* const chatService = new ChatService()
NewChatService(geminiKey, url) ==
    /\ chat.pc = "idle"
    /\ ~Constructed(ChatStore)
    /\ vstore' = [vstore EXCEPT ![ChatStore] =
                    initialize([pc |-> "new", url |-> url, client |-> Null,
                                failure |-> "none", op |-> NoOp])]
    /\ chat' = NewChat(geminiKey)
    /\ UNCHANGED <<serverVars, emb, ingestion, chunker, pointId, qdrant, run>>

\* generateResponse(sessionId, message) up to its first await: the mock
\* response without a model, else generateSingleEmbedding(message) is called
GenerateResponse(apiKey, message) ==
    /\ chat.pc = "constructed"
    /\ emb = EmbIdle
    /\ IF chat.model = Null
       THEN /\ \E choice \in MockChoices :
                  chat' = ChatReturns([chat EXCEPT !.message = message],
                                      getMockResponse(message, choice))
            /\ emb' = emb
       ELSE /\ chat' = [chat EXCEPT !.pc = "await_embedding", !.message = message]
            /\ emb' = generateEmbeddings(NewRun("generateSingleEmbedding", apiKey,
                                                Arr(<<message>>)))
    /\ UNCHANGED <<serverVars, ingestion, chunker, pointId, qdrant, vstore, run>>

\* generateSingleEmbedding has returned: no context without a record, else
\* searchSimilar(messageEmbedding.embedding, 5, 0.3) is called
EmbeddingReturned ==
    /\ chat.pc = "await_embedding"
    /\ emb.pc = "done"
    /\ IF HasEmbedding(emb.ret)
       THEN /\ chat' = [chat EXCEPT !.pc = "await_search"]
            /\ vstore' = [vstore EXCEPT ![ChatStore].op =
                            searchSimilar(vstore[ChatStore], emb.ret.embedding,
                                          Arg(ContextLimit), Arg(ContextThreshold))]
       ELSE /\ chat' = AskModel(chat, Arr(<<>>))
            /\ vstore' = vstore
    /\ UNCHANGED <<serverVars, emb, ingestion, chunker, pointId, qdrant, run>>

\* what the index may answer to a search: points of the collection, limit of
\* them at most, best first, each with a score of threshold or more (the
\* similarity the server computes is its own)
HitScores == {45, 90}
IndexAnswers(db, limit, score_threshold) ==
    LET scores == {s \in HitScores : s >= score_threshold}
        sizes == 0..Min(Max(limit, 0), Cardinality(db.points))
    IN  UNION {{[k \in 1..n |-> [id |-> f[k].id, score |-> g[k],
                                 payload |-> f[k].payload]] :
                  f \in {h \in [1..n -> db.points] :
                            \A j, k \in 1..n : j # k => h[j] # h[k]},
                  g \in {h \in [1..n -> scores] :
                            \A j, k \in 1..n : j < k => h[j] >= h[k]}} :
               n \in sizes}

\* await this.client.search(...) of the chat's store settles
ContextSearchSettles(ok) ==
    /\ chat.pc = "await_search"
    /\ Awaits(ChatStore, "searchSimilar")
    /\ LET op == vstore[ChatStore].op
       IN  IF ok /\ qdrant.collection # Null
           THEN \E searchResult \in IndexAnswers(qdrant, op.limit, op.threshold) :
                    vstore' = [vstore EXCEPT ![ChatStore].op =
                                 Returns(op, SearchResults(searchResult))]
           ELSE vstore' = [vstore EXCEPT ![ChatStore].op =
                   Returns([op EXCEPT !.log = Append(@, [ev |-> "failed"])],
                           Arr(<<>>))]
    /\ UNCHANGED <<serverVars, emb, ingestion, chunker, pointId, qdrant, run, chat>>

\* searchSimilar has returned: getRelevantContext returns its result
SearchReturned ==
    /\ chat.pc = "await_search"
    /\ vstore[ChatStore].op.pc = "returned"
    /\ chat' = AskModel(chat, vstore[ChatStore].op.ret)
    /\ UNCHANGED <<serverVars, emb, ingestion, chunker, pointId, qdrant, vstore, run>>

\* await this.model.generateContent(prompt) and await result.response settle:
\* the model's text, or a failure
ModelTexts == {<<>>, <<"o", "k">>}
ModelSettles(ok, text, choice) ==
    /\ chat.pc = "await_model"
    /\ chat' = IF ok
               THEN ChatReturns(chat, [content |-> text,
                                       sources |-> Sources(chat.context),
                                       usage |-> NoUsage])
               ELSE ModelFailed(chat, choice)
    /\ UNCHANGED <<serverVars, emb, ingestion, chunker, pointId, qdrant, vstore, run>>

\* ------------------------------------------------------ the chat harness
\* the index as an ingestion run has left it: two chunks, one longer than
\* the prompt's budget, one longer than a snippet
ContentOf(n) == [j \in 1..n |-> Digits(j % 10)[1]]
ChatVector(id, url, n, text) ==
    [Vector(id, url, EmbeddingOf(text)) EXCEPT !.content = ContentOf(n)]
ChatVectors ==
    Arr(<<ChatVector(<<"u", "-", "0">>, <<"u">>, ChatLongChars, 1),
          ChatVector(<<"v", "-", "0">>, <<"v">>, ChatMidChars, 2)>>)
IndexIngested ==
    /\ chat.pc = "idle"
    /\ qdrant = NoDatabase
    /\ qdrant' = QdrantUpsert(QdrantCreate(qdrant), UpsertPoints(ChatVectors))
    /\ UNCHANGED <<serverVars, emb, ingestion, chunker, pointId, vstore, run, chat>>

NextChat ==
    \/ IndexIngested
    \/ \E geminiKey \in GeminiKeys, url \in QdrantUrls : NewChatService(geminiKey, url)
    \/ \E ok \in BOOLEAN : TestSettles(ChatStore, ok)
    \/ \E ok \in BOOLEAN : ListSettles(ChatStore, ok)
    \/ \E ok \in BOOLEAN : CreateSettles(ChatStore, ok)
    \/ \E apiKey \in JinaKeys : GenerateResponse(apiKey, 1)
    \/ ProviderSettles
    \/ DelayElapses
    \/ EmbeddingReturned
    \/ \E ok \in BOOLEAN : ContextSearchSettles(ok)
    \/ SearchReturned
    \/ \E ok \in BOOLEAN, text \in ModelTexts, choice \in MockChoices :
           ModelSettles(ok, text, choice)

SpecChat == InitConc /\ [][NextChat]_vars

\* ================================================================ claims

ItemsOf(arr) == IF arr = Null THEN <<>> ELSE arr.items

\* the most recent k of the n messages the cap harness has appended, oldest first
LastAppended(n, k) == [i \in 1..Min(n, k) |-> Message(n - Min(n, k) + i)]

\* C1: after any number n of addMessage calls on one session the stored list has
\* at most 100 messages and is the most recent min(n, 100) appended messages in
\* append order; getMessages(limit 100, offset 0) returns exactly these.
C1_BoundedHistory ==
    LET n == nextMessageId - 1
    IN  /\ Len(ItemsOf(StoredMessages(Sm, CapId))) <= 100
        /\ ItemsOf(StoredMessages(Sm, CapId)) = LastAppended(n, 100)
        /\ last.op = "getMessages" => last.ret.items = LastAppended(n, 100)

\* 105 messages appended: the read returns 100 of them, the oldest being the 6th
C1_Witness ==
    /\ nextMessageId - 1 = 105
    /\ last.op = "getMessages"
    /\ Len(last.ret.items) = 100
    /\ last.ret.items[1] = Message(6)
    /\ last.ret.items[100] = Message(105)

\* messages[max(0, n-L-F) .. max(0, n-F)) of a list of n messages
PageOf(messages, limit, offset) ==
    SubSeq(messages, Max(0, Len(messages) - limit - offset) + 1,
           Max(0, Len(messages) - offset))

\* C2: for a stored list of n messages, limit L >= 0 and offset F >= 0,
\* getMessages returns messages[max(0,n-L-F) .. max(0,n-F)), in stored order,
\* min(L, max(0, n-F)) of them; on either backend.
C2_Pagination ==
    last.op = "getMessages" /\ last.m = "both" =>
        LET storedF == ItemsOf(StoredMessages(Fb, last.sessionId))
            storedR == ItemsOf(StoredMessages(Rd, last.sessionId))
        IN  /\ last.ret.fallback.items = PageOf(storedF, last.limit, last.offset)
            /\ last.ret.redis.items = PageOf(storedR, last.limit, last.offset)
            /\ Len(last.ret.fallback.items) =
                   Min(last.limit, Max(0, Len(storedF) - last.offset))
            /\ Len(last.ret.redis.items) =
                   Min(last.limit, Max(0, Len(storedR) - last.offset))

\* three stored messages, limit 1, offset 1: the middle one alone
C2_Witness ==
    /\ last.op = "getMessages" /\ last.m = "both"
    /\ last.limit = 1 /\ last.offset = 1
    /\ Len(ItemsOf(StoredMessages(Rd, last.sessionId))) = 3
    /\ last.ret.redis.items = <<ItemsOf(StoredMessages(Rd, last.sessionId))[2]>>
    /\ last.ret.fallback.items = last.ret.redis.items

\* C3: getSessionInfo returns the existing record and changes nothing when the
\* session exists; when it does not, it stores and returns a fresh record
\* (messageCount 0, created now) and an empty message list.
C3_GetOrCreate ==
    [][\A id \in SessionIds :
          GetSessionInfo(Sm, id) =>
              IF StoredSession(Sm, id) # Null
              THEN /\ last'.ret = StoredSession(Sm, id)
                   /\ UNCHANGED <<redisStore, fallbackStorage>>
              ELSE /\ last'.ret # Null
                   /\ last'.ret.id = id
                   /\ last'.ret.messageCount = 0
                   /\ last'.ret.created = ToISOString(now)
                   /\ StoredSession(Sm, id)' = last'.ret
                   /\ StoredMessages(Sm, id)' = Arr(<<>>)]_vars

\* a session that had messages is gone (deleted or expired) and getSessionInfo
\* has answered with a new one
C3_Witness ==
    /\ last.op = "getSessionInfo"
    /\ nextMessageId > 1
    /\ now > 0
    /\ last.ret.messageCount = 0
    /\ last.ret.created = ToISOString(now)
    /\ StoredMessages(Sm, last.sessionId) = Arr(<<>>)

\* C4: after an addMessage that ran alone the session record exists, its
\* messageCount is the length of the stored list, and its lastActivity is the
\* time of the append.
C4_AppendUpdatesSession ==
    [][\A id \in SessionIds :
          AddMessage(Sm, id, MaxAppends) =>
              /\ StoredSession(Sm, id)' # Null
              /\ StoredMessages(Sm, id)' # Null
              /\ StoredSession(Sm, id)'.messageCount = Len(StoredMessages(Sm, id)'.items)
              /\ StoredSession(Sm, id)'.lastActivity = ToISOString(now)
              /\ StoredMessages(Sm, id)'.items[Len(StoredMessages(Sm, id)'.items)]
                     = Message(nextMessageId)]_vars

\* a second append, later than the session's creation
C4_Witness ==
    /\ last.op = "addMessage"
    /\ StoredSession(Sm, last.sessionId) # Null
    /\ StoredSession(Sm, last.sessionId).messageCount = 2
    /\ StoredSession(Sm, last.sessionId).lastActivity = ToISOString(now)
    /\ StoredSession(Sm, last.sessionId).created # ToISOString(now)

\* what callers can tell apart: a session record without its timestamps
Observable(v) ==
    IF "created" \in DOMAIN v THEN [id |-> v.id, messageCount |-> v.messageCount] ELSE v

\* C7: given the same calls one after another (no expiry, no cache failure), the
\* cache backend and the fallback return the same getSessionInfo and getMessages
\* results, timestamps aside.
C7_BackendsAgree ==
    last.m = "both" /\ last.op \in {"getSessionInfo", "getMessages"} =>
        Observable(last.ret.fallback) = Observable(last.ret.redis)

\* both backends answer getSessionInfo with a session of two messages
C7_Witness ==
    /\ last.m = "both" /\ last.op = "getSessionInfo"
    /\ last.ret.redis.messageCount = 2
    /\ last.ret.fallback.messageCount = 2

\* C5: once DELETE /api/session/{id} has completed (no chat request for id in
\* flight), the session record and the messages POST /api/chat stored for id
\* are gone, so GET /api/chat/history/{id} has nothing to return.
C5_DeleteClearsHistory ==
    (/\ last.op = "deleteSession"
     /\ last.m = SessionManagerOfSessions
     /\ last.sessionId \notin pending)
    => /\ StoredSession(ChatManager, last.sessionId) = Null
       /\ StoredMessages(ChatManager, last.sessionId) = Null
       /\ Paginate(Arr(ItemsOf(StoredMessages(ChatManager, last.sessionId))),
                   DefaultLimit, 0) = Arr(<<>>)

\* C6: the backend follows the startup ping: when it succeeded, the manager
\* that served a request works on the cache and its fallback map stays empty;
\* when it failed, the manager works on its fallback map.
C6_BackendFollowsPing ==
    servicesStarted /\ last.m \in Managers =>
        IF redisClient # Null
        THEN /\ smRedis[last.m] # Null
             /\ \A k \in Keys : fallbackStorage[last.m][k] = Null
        ELSE smRedis[last.m] = Null

\* C8: in the fallback backend no session record, and no message list, outlives
\* its creation time by more than TTL plus one sweep interval.
C8_ExpiredSessionsSwept ==
    \A m \in Managers, id \in SessionIds :
        smRedis[m] = Null /\ fallbackStorage[m][SessionKey(id)] # Null =>
            now <= DateGetTime(fallbackStorage[m][SessionKey(id)].created)
                       + sessionTTL[m] * 1000 + SweepIntervalMs

\* C9: the sweep never evicts a session before TTL has passed since its most
\* recent write (lastActivity, set by createSession and by addMessage).
C9_SlidingExpiration ==
    [][\A id \in SessionIds :
          (/\ Sweep(Sm)
           /\ fallbackStorage[Sm][SessionKey(id)] # Null
           /\ fallbackStorage'[Sm][SessionKey(id)] = Null)
          => now >= DateGetTime(fallbackStorage[Sm][SessionKey(id)].lastActivity)
                        + sessionTTL[Sm] * 1000]_vars

\* the instants of the model's clock
Instants == {j * TickMs : j \in 0..(MaxTicks + 1)}

C11_StartupNeverFails ==
    startup.pc = "done" =>
        /\ servicesStarted
        /\ ~startup.thrown
        /\ (getRedisClient = Null) <=> (startup.failure # "none")

\* the ping was rejected, and startup completed with no client
C11_Witness ==
    /\ startup.pc = "done"
    /\ startup.failure = "ping"
    /\ ~startup.thrown
    /\ getRedisClient = Null

\* C12: when a cache command fails while a SessionManager operation is running,
\* the operation degrades (to the fallback path, or to an empty or false
\* result) and does not raise to its caller.
C12_CacheFailureDegrades ==
    [][\A p \in Callers :
          Step(p, TRUE) => /\ calls'[p].status # "failed"
                           /\ calls'[p].ret # CacheError]_vars

\* what a world w holds for a session of manager m
StoredSessionIn(w, m, sessionId) ==
    IF w.smRedis[m] # Null
    THEN LET data == RedisGet(w.redisStore, SessionKey(sessionId), w.now)
         IN  IF data # Null THEN JSONParse(data) ELSE Null
    ELSE w.fallbackStorage[m][SessionKey(sessionId)]

StoredMessagesIn(w, m, sessionId) ==
    IF w.smRedis[m] # Null
    THEN LET data == RedisGet(w.redisStore, MessagesKey(sessionId), w.now)
         IN  IF data # Null THEN JSONParse(data) ELSE Null
    ELSE w.fallbackStorage[m][MessagesKey(sessionId)]

\* the stores after one more createSession(sessionId) on manager m
CreatedAgain(w, m, sessionId) ==
    RunToCompletion(w, NewCall("createSession", m, sessionId, Null, 0, 0)).w

\* C13: whatever was stored for id before, after createSession(id) the session
\* record has messageCount 0 and the message list is empty, on either backend;
\* a second createSession(id) right after leaves the same state, timestamps
\* aside, and no other session is touched by it.
C13_CreateOverwrites ==
    [][\A id \in SessionIds :
          BothCreateSession(id) =>
              \A m \in {Fb, Rd} :
                  /\ Observable(StoredSession(m, id)') = [id |-> id, messageCount |-> 0]
                  /\ StoredMessages(m, id)' = Arr(<<>>)
                  /\ Observable(StoredSessionIn(CreatedAgain(World', m, id), m, id))
                         = Observable(StoredSession(m, id)')
                  /\ StoredMessagesIn(CreatedAgain(World', m, id), m, id)
                         = StoredMessages(m, id)'
                  /\ \A other \in SessionIds \ {id} :
                         /\ StoredSessionIn(CreatedAgain(World', m, id), m, other)
                                = StoredSession(m, other)
                         /\ StoredMessagesIn(CreatedAgain(World', m, id), m, other)
                                = StoredMessages(m, other)]_vars

\* createSession has answered on both backends for the one session that was
\* ever written to, after messages had been appended: it is empty again
C13_Witness ==
    /\ last.op = "createSession" /\ last.m = "both"
    /\ nextMessageId > MaxListLen
    /\ \A other \in SessionIds \ {last.sessionId} :
           StoredSession(Fb, other) = Null /\ StoredSession(Rd, other) = Null
    /\ last.ret.redis.messageCount = 0
    /\ StoredMessages(Fb, last.sessionId) = Arr(<<>>)
    /\ StoredMessages(Rd, last.sessionId) = Arr(<<>>)

\* C14: addMessage on the cache reads the list, appends and writes it back with
\* awaits in between: what a call writes is the list as that call read it plus
\* its own message, whatever another call stored meanwhile.  Two overlapping
\* appends to one session can therefore both complete and leave only one of
\* their messages in the list.
C14_LostUpdate ==
    [][\A p \in Callers :
          (/\ smRedis[Sm] # Null
           /\ calls[p].status = "running"
           /\ Top(calls[p]).fn = "addMessage"
           /\ Step(p, FALSE))
          => /\ Top(calls[p]).pc = "await_get_messages" =>
                    /\ Top(calls'[p]).messages =
                           Push(Arr(ItemsOf(StoredMessages(Sm, ConcId))), calls[p].message)
                    /\ UNCHANGED redisStore
             /\ Top(calls[p]).pc = "await_setex_messages" =>
                    StoredMessages(Sm, ConcId)' = Top(calls[p]).messages]_vars

\* both appends have completed without error and the list holds one message
C14_Witness ==
    /\ smRedis[Sm] # Null
    /\ calls["a"].status = "done" /\ calls["a"].op = "addMessage"
    /\ calls["b"].status = "done" /\ calls["b"].op = "addMessage"
    /\ calls["a"].message # calls["b"].message
    /\ nextMessageId = 3
    /\ Len(ItemsOf(StoredMessages(Sm, ConcId))) = 1
    /\ ItemsOf(StoredMessages(Sm, ConcId))[1] \in {calls["a"].message, calls["b"].message}

\* C15: with an API key configured, generateEmbeddings returns exactly one
\* record per input text, whatever the provider answers.
C15_OneRecordPerText ==
    (emb.pc = "done" /\ emb.apiKey # "" /\ emb.entry = "generateEmbeddings")
    => Len(emb.ret.items) = Len(emb.texts.items)

\* the provider call did not yield records: no answer, no data, or no vectors
FailedCall(response) ==
    \/ response.kind = "error"
    \/ response.data = Null
    \/ \E j \in DOMAIN response.data.items : "embedding" \notin DOMAIN response.data.items[j]

\* the records the step has appended to allEmbeddings
Appended == SubSeq(emb'.allEmbeddings.items, Len(emb.allEmbeddings.items) + 1,
                   Len(emb'.allEmbeddings.items))

\* a fallback record for position j (from 1) of its batch
IsFallbackRecord(rec, j) ==
    /\ DOMAIN rec = {"embedding", "index", "failed"}
    /\ rec.failed = TRUE
    /\ rec.index = j - 1
    /\ Len(rec.embedding) = 768
    /\ \A d \in 1..768 : rec.embedding[d] = 0

\* C16: when the fourth call for a batch fails too, the batch is replaced by
\* one fallback record per text: a vector of 768 zeros, failed = true, and
\* index = the text's position in the batch.
C16_FallbackOnExhaustion ==
    [][(emb.pc = "await_post" /\ emb.retryCount = 3) =>
          \A response \in Responses(Batch(emb)) :
              (FailedCall(response) /\ ProviderResponds(response)) =>
                  /\ Len(Appended) = Min(20, Len(emb.texts.items) - emb.i)
                  /\ \A j \in 1..Len(Appended) : IsFallbackRecord(Appended[j], j)]_vars

\* 25 texts, every provider call failed: 25 fallback records, positions 0..19
\* and 0..4
C16_Witness ==
    /\ emb.pc = "done"
    /\ emb.entry = "generateEmbeddings"
    /\ emb.apiKey # ""
    /\ Len(emb.texts.items) = 25
    /\ Len(emb.ret.items) = 25
    /\ \A j \in 1..20 : IsFallbackRecord(emb.ret.items[j], j)
    /\ \A j \in 1..5 : IsFallbackRecord(emb.ret.items[20 + j], j)
    /\ Cardinality({k \in DOMAIN emb.log : emb.log[k].ev = "post"}) = 8

\* the wait before retry k
RetryWait(k) == 1000 * 2^k

\* in a log, every retry follows a failed call of the same batch after the
\* wait of its rank, and no batch is requested more than 4 times
RetriesInOrder(log) ==
    \A k \in DOMAIN log :
        /\ log[k].ev = "post" =>
               /\ log[k].attempt \in 0..3
               /\ log[k].attempt > 0 =>
                      /\ k >= 3
                      /\ log[k - 1].ev = "delay" /\ log[k - 1].for = "retry"
                      /\ log[k - 1].ms = RetryWait(log[k].attempt - 1)
                      /\ log[k].at = log[k - 1].at + log[k - 1].ms
                      /\ log[k - 2].ev = "post"
                      /\ log[k - 2].batch = log[k].batch
                      /\ log[k - 2].attempt = log[k].attempt - 1
               /\ Cardinality({j \in DOMAIN log : /\ log[j].ev = "post"
                                                  /\ log[j].batch = log[k].batch}) <= 4
        /\ (log[k].ev = "delay" /\ log[k].for = "retry") =>
               k >= 2 /\ log[k - 1].ev = "post"

\* C17: per batch a failed provider call (no answer or a bad body alike) is
\* retried after 1000 * 2^k ms, k = 0, 1, 2; the provider is called at most 4
\* times; a call that succeeds ends the retries and its vectors are returned;
\* fallback records are produced only when the 4th call has failed.
C17_RetryWithBackoff ==
    [][emb.pc = "await_post" =>
          \A response \in Responses(Batch(emb)) :
              ProviderResponds(response) =>
                  /\ RetriesInOrder(emb'.log)
                  /\ ~FailedCall(response) =>
                         /\ emb'.pc # "await_backoff"
                         /\ Appended = [j \in 1..Len(response.data.items) |->
                                          [embedding |-> response.data.items[j].embedding,
                                           index |-> response.data.items[j].index]]
                  /\ (FailedCall(response) /\ emb.retryCount < 3) =>
                         /\ emb'.pc = "await_backoff"
                         /\ emb'.delay = RetryWait(emb.retryCount)
                         /\ Appended = <<>>
                  /\ (\E j \in DOMAIN Appended : "failed" \in DOMAIN Appended[j]) =>
                         FailedCall(response) /\ emb.retryCount = 3]_vars

\* three calls failed, the fourth answered: waits of 1, 2 and 4 s, then the
\* provider's vectors
C17_Witness ==
    /\ emb.pc = "done"
    /\ emb.apiKey # ""
    /\ emb.entry = "generateEmbeddings"
    /\ Len(emb.log) = 8
    /\ emb.log[2].ms = 1000 /\ emb.log[4].ms = 2000 /\ emb.log[6].ms = 4000
    /\ emb.log[7].ev = "post" /\ emb.log[7].attempt = 3 /\ emb.log[7].at = 7000
    /\ emb.log[8].ev = "returned"
    /\ Len(emb.ret.items) = 2
    /\ \A j \in 1..2 : /\ "failed" \notin DOMAIN emb.ret.items[j]
                       /\ emb.ret.items[j].embedding = EmbeddingOf(emb.texts.items[j])

\* the first requests of the batches, in the order they were issued
FirstPosts(log) == SelectSeq(log, LAMBDA x : x.ev = "post" /\ x.attempt = 0)

\* every batch of a finished run was submitted, in input order
EveryBatchSubmitted ==
    (emb.pc = "done" /\ emb.apiKey # "") =>
        LET n == Len(emb.texts.items)
        IN  /\ Len(FirstPosts(emb.log)) = (n + 19) \div 20
            /\ \A k \in DOMAIN FirstPosts(emb.log) :
                   FirstPosts(emb.log)[k].batch = (k - 1) * 20

\* C18: whatever the provider does, generateEmbeddings submits every batch, in
\* input order (a batch that failed for good does not end the run), and the
\* run eventually returns.
C18_AllBatchesThenReturn ==
    /\ []EveryBatchSubmitted
    /\ (emb.pc # "idle") ~> (emb.pc = "done")

\* the first batch of two ended in fallback records, the second was answered
C18_Witness ==
    /\ emb.pc = "done"
    /\ emb.apiKey # ""
    /\ Len(emb.texts.items) = 25
    /\ Len(emb.ret.items) = 25
    /\ "failed" \in DOMAIN emb.ret.items[1]
    /\ "failed" \notin DOMAIN emb.ret.items[21]
    /\ emb.ret.items[25].embedding = EmbeddingOf(25)

\* C19: with no API key configured a run is over as soon as it is called:
\* generateEmbeddings has returned an empty list, generateSingleEmbedding null,
\* and no provider request or delay was issued.
C19_NoKeyNoCall ==
    (emb.pc # "idle" /\ emb.apiKey = "") =>
        /\ emb.pc = "done"
        /\ emb.log = <<>>
        /\ emb.inFlight = 0
        /\ emb.clock = 0
        /\ emb.entry = "generateEmbeddings" => emb.ret = Arr(<<>>)
        /\ emb.entry = "generateSingleEmbedding" => emb.ret = Null

\* generateSingleEmbedding has answered null for want of a key
C19_Witness ==
    /\ emb.pc = "done"
    /\ emb.apiKey = ""
    /\ emb.entry = "generateSingleEmbedding"
    /\ emb.ret = Null
    /\ emb.log = <<>>

\* the inter-batch delays of a log
Pauses(log) == {k \in DOMAIN log : log[k].ev = "delay" /\ log[k].for = "pause"}

\* C20: within a run at most one provider request is in flight; the first
\* request of a batch other than the first is issued right after a 500 ms
\* delay that began when the batch before it had returned; and no delay
\* follows the last batch: a finished run over n >= 1 texts has made
\* ceil(n/20) - 1 inter-batch delays (none for an empty input).
C20_SequentialBatches ==
    (emb.pc # "idle" /\ emb.apiKey # "") =>
        /\ emb.inFlight \in 0..1
        /\ emb.inFlight = 1 <=> emb.pc = "await_post"
        /\ \A k \in DOMAIN emb.log :
               /\ emb.log[k].ev = "post" =>
                      /\ k > 1 => emb.log[k - 1].ev # "post"
                      /\ (emb.log[k].attempt = 0 /\ emb.log[k].batch > 0) =>
                             /\ k >= 3
                             /\ k - 1 \in Pauses(emb.log)
                             /\ emb.log[k - 1].ms = 500
                             /\ emb.log[k - 2].ev = "returned"
                             /\ emb.log[k - 2].batch = emb.log[k].batch - 20
                             /\ emb.log[k].at = emb.log[k - 2].at + 500
               /\ k \in Pauses(emb.log) =>
                      k > 1 /\ emb.log[k - 1].ev = "returned"
        /\ emb.pc = "done" =>
               LET n == Len(emb.texts.items)
               IN  /\ Cardinality(Pauses(emb.log)) =
                          IF n = 0 THEN 0 ELSE (n + 19) \div 20 - 1
                   /\ n > 0 => emb.log[Len(emb.log)].ev = "returned"

\* two batches, the first retried once: one pause, begun when the first batch
\* returned at 1000 ms, and the second batch requested at 1500 ms
C20_Witness ==
    /\ emb.pc = "done"
    /\ emb.apiKey # ""
    /\ Len(emb.texts.items) = 25
    /\ Cardinality(Pauses(emb.log)) = 1
    /\ \E k \in DOMAIN emb.log :
           /\ emb.log[k].ev = "post" /\ emb.log[k].batch = 20 /\ emb.log[k].at = 1500
           /\ emb.log[k - 2].ev = "returned" /\ emb.log[k - 2].at = 1000
    /\ emb.log[Len(emb.log)].ev = "returned"

\* the positions of all that removeDuplicates kept, in the list it was given
IsSubsequence(sub, seq) ==
    \E pos \in [DOMAIN sub -> DOMAIN seq] :
        /\ \A k \in DOMAIN sub : sub[k] = seq[pos[k]]
        /\ \A j, k \in DOMAIN sub : j < k => pos[j] < pos[k]

\* the key of a title: lower case, the first 50 characters
NormalizedKey(title) ==
    [k \in 1..Min(50, Len(title)) |-> LowerOf(title[k])]

\* the first article of each key, in the order of the list
FirstOfEachKey(seq) ==
    SelectSeq([k \in DOMAIN seq |-> [article |-> seq[k], position |-> k]],
              LAMBDA x : \A j \in 1..(x.position - 1) :
                             NormalizedKey(seq[j].title)
                             # NormalizedKey(x.article.title))

\* C29: removeDuplicates returns a subsequence of its input, in the original
\* order, that keeps exactly the first article of each key (the lower-cased
\* title cut to 50 characters) and holds no two articles of the same key; an
\* empty list gives an empty list, three titles that differ in case only
\* give one article.
C29_FirstOfEachKeyKept ==
    ingestion.pc # "idle" =>
        LET given == ingestion.allArticles.items
            kept == ingestion.articles.items
        IN  /\ IsSubsequence(kept, given)
            /\ kept = [k \in DOMAIN FirstOfEachKey(given) |->
                         FirstOfEachKey(given)[k].article]
            /\ \A j, k \in DOMAIN kept :
                   j # k => NormalizedKey(kept[j].title) # NormalizedKey(kept[k].title)
            /\ given = <<>> => kept = <<>>
            /\ (/\ Len(given) = 3
                /\ \A j, k \in 1..3 : ToLowerCase(given[j].title)
                                      = ToLowerCase(given[k].title))
               => Len(kept) = 1

\* News, NEWS and news were delivered, in some order with the titles all
\* different as written, and one article came back: the first
C29_Witness ==
    /\ ingestion.pc = "fetched"
    /\ Len(ingestion.allArticles.items) = 3
    /\ \A j, k \in 1..3 :
           /\ ToLowerCase(ingestion.allArticles.items[j].title) = <<"n", "e", "w", "s">>
           /\ j # k => ingestion.allArticles.items[j].title
                       # ingestion.allArticles.items[k].title
    /\ ingestion.articles.items = <<ingestion.allArticles.items[1]>>

\* C24: within one run, no two of the chunks that processArticlesForEmbedding
\* makes from the deduplicated articles have the same identifier.
C24_ChunkIdsUnique ==
    ingestion.pc = "processed" =>
        \A j, k \in DOMAIN ingestion.chunks.items :
            j # k => ingestion.chunks.items[j].id # ingestion.chunks.items[k].id

\* C30: whatever the text, maxChunkSize and overlap (overlap equal to or
\* greater than maxChunkSize included), every iteration of chunkContent's loop
\* moves on by a positive stride, so the loop ends with a finite list.
C30_PositiveStride ==
    [][(chunker.pc = "loop" /\ chunker'.pc = "loop") =>
           chunker'.i > chunker.i]_vars

\* h := 31 * h + charCode modulo 2^32, on the two halves of h
WrapHash(h, char) ==
    [hi |-> (31 * h.hi + (31 * h.lo + char) \div 65536) % 65536,
     lo |-> (31 * h.lo + char) % 65536]
RECURSIVE WrapHashOf(_, _)
WrapHashOf(id, h) ==
    IF id = <<>> THEN h ELSE WrapHashOf(Tail(id), WrapHash(h, CharCode[Head(id)]))

\* C25: for every identifier generateValidPointId returns a non-negative
\* integer, the absolute value of the 32-bit signed wrap-around hash
\* h := 31 * h + charCode, hence within 0..2^31; and a second derivation from
\* the same string returns the same value.
C25_PointIdNonNegative ==
    pointId.pc = "done" =>
        LET h == WrapHashOf(pointId.originalId, [hi |-> 0, lo |-> 0])
            id == pointId.ret
        IN  /\ id.hi \in 0..32768 /\ id.lo \in 0..65535
            /\ id.hi = 32768 => id.lo = 0
            /\ h.hi < 32768 => id = h
            /\ h.hi >= 32768 =>
                   \* id + h = 2^32
                   /\ (id.lo + h.lo) % 65536 = 0
                   /\ id.hi + h.hi + (id.lo + h.lo) \div 65536 = 65536
            /\ pointId.calls = 2 => pointId.ret = pointId.first

\* the hash of uuuuuu has wrapped around to a negative number, and the
\* identifier derived twice is its absolute value
C25_Witness ==
    /\ pointId.pc = "done"
    /\ pointId.calls = 2
    /\ pointId.originalId = <<"u", "u", "u", "u", "u", "u">>
    /\ WrapHashOf(pointId.originalId, [hi |-> 0, lo |-> 0]).hi >= 32768
    /\ pointId.ret # WrapHashOf(pointId.originalId, [hi |-> 0, lo |-> 0])
    /\ pointId.ret.hi < 32768

\* C27: however many VectorStoreService instances are constructed, one after
\* the other or overlapping, the collection is created once at most and no
\* instance loses its client because the collection already exists.
C27_EnsureCollectionIdempotent ==
    /\ qdrant.created <= 1
    /\ \A v \in Instances :
           (Constructed(v) /\ vstore[v].pc = "done" /\ vstore[v].failure = "exists")
               => vstore[v].client # Null

\* the initialization of the instance had ended without success when the
\* call was made: no URL, or the connection test or the collection setup failed
CalledUninitialized(op) ==
    /\ op.initialized.pc = "done"
    /\ op.initialized.failure \in {"no_url", "test", "list", "create", "exists"}

\* C28: a call on an instance whose initialization did not succeed returns at
\* once, without a request to the server and without raising: searchSimilar
\* an empty list, upsertVectors false, getCollectionInfo null; and a
\* searchSimilar whose search request fails returns an empty list too.
C28_UninitializedDegrades ==
    \A v \in Instances :
        (Constructed(v) /\ vstore[v].op.pc # "idle") =>
            LET op == vstore[v].op
            IN  /\ ~op.thrown
                /\ CalledUninitialized(op) =>
                       /\ op.pc = "returned"
                       /\ op.requests = 0
                       /\ op.log = <<>>
                       /\ op.name = "searchSimilar" => op.ret = Arr(<<>>)
                       /\ op.name = "upsertVectors" => op.ret = FALSE
                       /\ op.name = "getCollectionInfo" => op.ret = Null
                /\ (/\ op.name = "searchSimilar" /\ op.pc = "returned"
                    /\ \E k \in DOMAIN op.log : op.log[k].ev = "failed")
                       => op.ret = Arr(<<>>)

\* the writer's collection setup failed and its upsertVectors answered false;
\* the searcher's connection test failed and its searchSimilar answered []
C28_Witness ==
    /\ Constructed("v1") /\ Constructed("v2")
    /\ vstore["v1"].failure \in {"list", "create", "exists"}
    /\ vstore["v1"].op.name = "upsertVectors"
    /\ vstore["v1"].op.pc = "returned"
    /\ CalledUninitialized(vstore["v1"].op)
    /\ Len(vstore["v1"].op.args.items) = 2
    /\ vstore["v1"].op.ret = FALSE
    /\ vstore["v2"].failure = "test"
    /\ vstore["v2"].op.name = "searchSimilar"
    /\ vstore["v2"].op.pc = "returned"
    /\ CalledUninitialized(vstore["v2"].op)
    /\ vstore["v2"].op.ret = Arr(<<>>)
    /\ vstore["v2"].op.requests = 0

\* the limit and the threshold a call of searchSimilar asked for
AskedLimit(op) == IF op.args.limit = Null THEN 5 ELSE op.args.limit.value
AskedThreshold(op) == IF op.args.threshold = Null THEN 70 ELSE op.args.threshold.value

\* the stored points that qualify for a query
Qualifying(op) ==
    {p \in qdrant.points : Score(op.args.queryVector, p.vector) >= AskedThreshold(op)}

\* result r is stored point p, with its score for the query and its payload
IsResultFor(r, p, op) ==
    /\ r.id = p.id
    /\ r.score = Score(op.args.queryVector, p.vector)
    /\ r.content = p.payload.content
    /\ \A field \in DOMAIN r.metadata : r.metadata[field] = p.payload[field]

\* C26: a searchSimilar(queryVector, limit, threshold) that the server has
\* answered returns at most limit results, each a stored point with a score
\* of threshold or more and its stored payload, best score first; they are
\* the best of the qualifying points, and all of them when fewer than limit
\* qualify (none, without an error, when no point reaches the threshold).
C26_SearchReturnsBestHits ==
    [][\A v \in Instances :
          (/\ Awaits(v, "searchSimilar")
           /\ vstore'[v].op.pc = "returned"
           /\ \A k \in DOMAIN vstore'[v].op.log : vstore'[v].op.log[k].ev # "failed")
          => LET op == vstore'[v].op
                 results == op.ret.items
             IN  /\ ~op.thrown
                 /\ Len(results) = Min(AskedLimit(op), Cardinality(Qualifying(op)))
                 /\ \A k \in DOMAIN results :
                        /\ results[k].score >= AskedThreshold(op)
                        /\ \E p \in Qualifying(op) : IsResultFor(results[k], p, op)
                        /\ \A p \in Qualifying(op) :
                               (\A j \in DOMAIN results : results[j].id # p.id)
                                   => Score(op.args.queryVector, p.vector)
                                      <= results[k].score
                 /\ \A j, k \in DOMAIN results :
                        /\ j < k => results[j].score >= results[k].score
                        /\ j # k => results[j].id # results[k].id]_vars

\* three points are stored; a search for <<3, 4>> with the default limit and
\* threshold 0.9 returned the two that score 1.0 and 0.96, in that order
C26_Witness ==
    /\ Constructed("v2")
    /\ Cardinality(qdrant.points) = 3
    /\ vstore["v2"].op.name = "searchSimilar"
    /\ vstore["v2"].op.pc = "returned"
    /\ vstore["v2"].op.args = [queryVector |-> <<3, 4>>, limit |-> Null,
                               threshold |-> Arg(90)]
    /\ Len(vstore["v2"].op.ret.items) = 2
    /\ vstore["v2"].op.ret.items[1].score = 100
    /\ vstore["v2"].op.ret.items[2].score = 96
    /\ vstore["v2"].op.ret.items[2].metadata.url = <<"v">>

\* the requests and the outcomes in the log of an upsertVectors call
UpsertsIn(log) == {k \in DOMAIN log : log[k].ev = "upsert"}
WrittenIn(log) == {k \in DOMAIN log : log[k].ev = "written"}

\* C22: upsertVectors sends the points in consecutive batches of 100 at most,
\* batch k + 1 only after the write of batch k has completed; it never
\* raises and returns a boolean, true only if every batch was written.
C22_BatchedUpsert ==
    \A v \in Instances :
        (Constructed(v) /\ vstore[v].op.name = "upsertVectors") =>
            LET op == vstore[v].op
                n == Len(op.args.items)
            IN  /\ ~op.thrown
                /\ \A k \in UpsertsIn(op.log) :
                       /\ op.log[k].from = 100 * Cardinality({j \in UpsertsIn(op.log) : j < k})
                       /\ op.log[k].from < n
                       /\ op.log[k].size = Min(100, n - op.log[k].from)
                       /\ k > 1 => /\ op.log[k - 1].ev = "written"
                                   /\ op.log[k - 1].from = op.log[k].from - 100
                /\ \A k \in DOMAIN op.log :
                       /\ op.log[k].ev = "written" =>
                              /\ k > 1 /\ op.log[k - 1].ev = "upsert"
                              /\ op.log[k - 1].from = op.log[k].from
                       /\ op.log[k].ev = "failed" =>
                              /\ k = Len(op.log) /\ op.pc = "returned" /\ op.ret = FALSE
                              /\ k > 1 /\ op.log[k - 1].ev \in {"upsert", "written"}
                /\ op.pc = "await" <=>
                       (op.log # <<>> /\ op.log[Len(op.log)].ev = "upsert")
                /\ op.pc = "returned" =>
                       /\ op.ret \in BOOLEAN
                       /\ op.ret = TRUE =>
                              /\ Cardinality(WrittenIn(op.log)) = (n + 99) \div 100
                              /\ Cardinality(UpsertsIn(op.log)) = (n + 99) \div 100
                              /\ \A j \in 1..n :
                                     \E p \in qdrant.points : p.id = op.points[j].id

\* 201 vectors went out as batches of 100, 100 and 1, each after the one
\* before was written, and the call returned true; the index holds 201 points
C22_Witness ==
    /\ Constructed("v1")
    /\ vstore["v1"].op.name = "upsertVectors"
    /\ vstore["v1"].op.pc = "returned"
    /\ vstore["v1"].op.ret = TRUE
    /\ Len(vstore["v1"].op.args.items) = 201
    /\ Len(vstore["v1"].op.log) = 6
    /\ vstore["v1"].op.log[1] = [ev |-> "upsert", from |-> 0, size |-> 100]
    /\ vstore["v1"].op.log[3] = [ev |-> "upsert", from |-> 100, size |-> 100]
    /\ vstore["v1"].op.log[5] = [ev |-> "upsert", from |-> 200, size |-> 1]
    /\ vstore["v1"].op.log[6] = [ev |-> "written", from |-> 200]
    /\ Cardinality(qdrant.points) = 201

IsRecordFor(rec, text) ==
    IF "failed" \in DOMAIN rec
    THEN rec.embedding = [d \in 1..768 |-> 0]
    ELSE rec.embedding = [d \in 1..768 |-> text]

\* the vector is one produced for the text
IsVectorFor(vector, text) ==
    IF ToString(vector[1]) = "0"
    THEN vector = [d \in 1..768 |-> 0]
    ELSE vector = [d \in 1..768 |-> text]

\* C21: embedding records stay aligned with their inputs through the
\* pipeline: once generateEmbeddings has returned records to runIngestion,
\* record i is the record produced for texts[i], for every position i, and
\* every point runIngestion hands to the vector store for a chunk carries the
\* embedding produced for that chunk's content.
C21_PositionalAlignment ==
    run.pc = "await_upsert" =>
        /\ \A i \in 1..Len(run.texts.items) :
               /\ i <= Len(emb.ret.items)
               /\ IsRecordFor(emb.ret.items[i], run.texts.items[i])
        /\ \A k \in 1..Len(vstore["v1"].op.args.items) :
               \A i \in 1..Len(run.chunks.items) :
                   run.chunks.items[i].id = vstore["v1"].op.args.items[k].id
                   => IsVectorFor(vstore["v1"].op.args.items[k].embedding,
                                  run.chunks.items[i].content)

\* C38: upsertVectors is not atomic across batches: when the write of a batch
\* fails, the call returns false without trying a later batch, and the points
\* of the batches written before it are still in the index.
C38_PartialUpsertKept ==
    \A v \in Instances :
        (Constructed(v) /\ vstore[v].op.name = "upsertVectors") =>
            LET op == vstore[v].op
            IN  \A k \in DOMAIN op.log :
                    op.log[k].ev = "failed" =>
                        /\ k = Len(op.log)
                        /\ op.pc = "returned"
                        /\ op.ret = FALSE
                        /\ \A j \in UpsertsIn(op.log) : op.log[j].from <= op.log[k].from
                        /\ \A j \in 1..Min(op.log[k].from, Len(op.points)) :
                               op.points[j] \in qdrant.points

\* of 201 vectors the first 100 were written, the write of the second batch
\* failed, the call returned false and the index holds the 100 points
C38_Witness ==
    /\ Constructed("v1")
    /\ vstore["v1"].op.name = "upsertVectors"
    /\ vstore["v1"].op.pc = "returned"
    /\ vstore["v1"].op.ret = FALSE
    /\ Len(vstore["v1"].op.args.items) = 201
    /\ Len(vstore["v1"].op.log) = 4
    /\ vstore["v1"].op.log[2] = [ev |-> "written", from |-> 0]
    /\ vstore["v1"].op.log[3] = [ev |-> "upsert", from |-> 100, size |-> 100]
    /\ vstore["v1"].op.log[4] = [ev |-> "failed", from |-> 100]
    /\ Cardinality(qdrant.points) = 100
    /\ \A j \in 1..100 : vstore["v1"].op.points[j] \in qdrant.points

WithVector(records) ==
    {i \in 1..Len(records) :
        "embedding" \in DOMAIN records[i] /\ Len(records[i].embedding) > 0}

\* C39: runIngestion hands a point for chunk i to the vector store exactly
\* when position i of generateEmbeddings' output holds a record with a
\* non-empty vector, failed or not, and that point carries this vector; the
\* summary counts every record as an embedding generated and every such point
\* as a vector stored.
C39_FallbackRecordsStored ==
    /\ run.pc = "await_upsert" =>
          LET vectorData == vstore["v1"].op.args.items
              chunks == run.chunks.items
          IN  /\ Len(vectorData) = Cardinality(WithVector(emb.ret.items) \cap DOMAIN chunks)
              /\ \A i \in DOMAIN chunks :
                     IF i \in WithVector(emb.ret.items)
                     THEN \E k \in DOMAIN vectorData :
                              /\ vectorData[k].id = chunks[i].id
                              /\ vectorData[k].content = chunks[i].content
                              /\ vectorData[k].embedding = emb.ret.items[i].embedding
                     ELSE \A k \in DOMAIN vectorData : vectorData[k].id # chunks[i].id
    /\ run.pc = "done" =>
          /\ run.summary.embeddings = Len(emb.ret.items)
          /\ run.summary.vectors =
                 Cardinality(WithVector(emb.ret.items) \cap DOMAIN run.chunks.items)
          /\ run.summary.vectors = Cardinality(qdrant.points)

\* the only batch of a run failed four times: the run is over, the index
\* holds the point of the chunk with a vector of zeros, and the summary
\* counts one embedding and one vector
C39_Witness ==
    /\ run.pc = "done"
    /\ Len(run.chunks.items) = 1
    /\ Len(emb.ret.items) = 1
    /\ "failed" \in DOMAIN emb.ret.items[1]
    /\ \E p \in qdrant.points : p.vector = [d \in 1..768 |-> 0]
    /\ run.summary.embeddings = 1
    /\ run.summary.vectors = 1

\* the words of a text, as the pieces between its spaces
RECURSIVE SplitOnSpace(_)
SplitOnSpace(s) ==
    IF \A p \in DOMAIN s : s[p] # " " THEN <<s>>
    ELSE LET p == CHOOSE q \in DOMAIN s : s[q] = " " /\ \A r \in 1..(q - 1) : s[r] # " "
         IN  <<SubSeq(s, 1, p - 1)>> \o SplitOnSpace(SubSeq(s, p + 1, Len(s)))

\* words put together again with one space between them
RECURSIVE JoinWithSpace(_)
JoinWithSpace(ws) ==
    IF ws = <<>> THEN <<>>
    ELSE IF Len(ws) = 1 THEN ws[1]
    ELSE ws[1] \o <<" ">> \o JoinWithSpace(Tail(ws))

\* a text without the white space at its ends
RECURSIVE Strip(_)
Strip(s) ==
    IF s = <<>> THEN s
    ELSE IF Head(s) \in {" ", "\n"} THEN Strip(Tail(s))
    ELSE IF s[Len(s)] \in {" ", "\n"} THEN Strip(SubSeq(s, 1, Len(s) - 1))
    ELSE s

CeilDiv(a, b) == (a + b - 1) \div b

\* window k (from 0) of the words: words[k*(S-O) .. k*(S-O)+S)
WindowWords(tokens, S, O, k) ==
    SubSeq(tokens, k * (S - O) + 1, Min(k * (S - O) + S, Len(tokens)))

\* the non-empty trimmed windows, in order
KeptWindows(tokens, S, O) ==
    SelectSeq([k \in 1..CeilDiv(Len(tokens), S - O) |->
                  Strip(JoinWithSpace(WindowWords(tokens, S, O, k - 1)))],
              LAMBDA w : w # <<>>)

\* every word is a word proper: not empty, no white space at its ends
CleanWords(tokens) == \A k \in DOMAIN tokens : tokens[k] # <<>> /\ Strip(tokens[k]) = tokens[k]

\* the words two consecutive chunks share: the last words of the earlier one,
\* from its word S - O + 1 on, are the first words of the later one
SharedWords(earlier, later, S, O) ==
    LET tail == SubSeq(earlier, S - O + 1, Len(earlier))
    IN  IF Len(tail) <= Len(later) /\ SubSeq(later, 1, Len(tail)) = tail
        THEN Len(tail) ELSE 0

\* the chunks put end to end, each later one without its first O words
RECURSIVE WithoutOverlap(_, _, _)
WithoutOverlap(chunks, O, k) ==
    IF k > Len(chunks) THEN <<>>
    ELSE LET ws == SplitOnSpace(chunks[k])
         IN  (IF k = 1 THEN ws ELSE SubSeq(ws, Min(O, Len(ws)) + 1, Len(ws)))
             \o WithoutOverlap(chunks, O, k + 1)

\* a text of n one-letter words, word j (from 0) being the last digit of j
NumberedWords(n) ==
    [p \in 1..(2 * n - 1) |->
        IF p % 2 = 1 THEN Digits(((p - 1) \div 2) % 10)[1] ELSE " "]

C35_FallbackRecordsPaired ==
    smRedis[Sm] = Null =>
        (fallbackStorage[Sm][MessagesKey(ConcId)] # Null
             => fallbackStorage[Sm][SessionKey(ConcId)] # Null)

\* C36: on the cache backend, when addMessage(id, m) completes without error
\* and no other append to id is in flight, m is the last element of the stored
\* message list and the session's messageCount is the length of that list,
\* even if the session was deleted in the course of the call.
C36_AppendSurvivesDelete ==
    [][(/\ smRedis[Sm] # Null
        /\ calls[Appender].status = "running"
        /\ calls'[Appender].status = "done")
       => LET messagesData == RedisGet(redisStore', MessagesKey(ConcId), now')
              data == RedisGet(redisStore', SessionKey(ConcId), now')
          IN  /\ messagesData # Null
              /\ JSONParse(messagesData).items # <<>>
              /\ JSONParse(messagesData).items[Len(JSONParse(messagesData).items)]
                     = calls[Appender].message
              /\ data # Null
              /\ JSONParse(data).messageCount = Len(JSONParse(messagesData).items)]_vars

\* the messages whose addMessage is still running
InFlight == {calls[p].message.id : p \in {q \in Callers : calls[q].status = "running"}}

\* how often message n is in the stored list of the session
TimesStored(n) ==
    Cardinality({k \in DOMAIN ItemsOf(StoredMessages(Sm, ConcId)) :
                    ItemsOf(StoredMessages(Sm, ConcId))[k].id = n})

\* C37: in the fallback backend no append is lost when addMessage calls on
\* one session overlap: every message whose call is over is in the list once,
\* no message is in it twice, and the session's messageCount is the length of
\* the list.
C37_NoLostAppend ==
    smRedis[Sm] = Null =>
        /\ \A n \in 1..(nextMessageId - 1) :
               /\ TimesStored(n) <= 1
               /\ n \notin InFlight => TimesStored(n) = 1
        /\ \A k \in DOMAIN ItemsOf(StoredMessages(Sm, ConcId)) :
               ItemsOf(StoredMessages(Sm, ConcId))[k].id \in 1..(nextMessageId - 1)
        /\ InFlight = {} =>
               (StoredSession(Sm, ConcId) # Null =>
                    StoredSession(Sm, ConcId).messageCount
                        = Len(ItemsOf(StoredMessages(Sm, ConcId))))

\* the caller that began first is still suspended while the append that began
\* second is over and its message is stored
C37_Witness ==
    /\ smRedis[Sm] = Null
    /\ startup.pc = "done"
    /\ calls["b"].status = "running"
    /\ calls["b"].message.id = 1
    /\ calls["a"].status = "done"
    /\ calls["a"].message.id = 2
    /\ ItemsOf(StoredMessages(Sm, ConcId)) = <<Message(2)>>
    /\ StoredSession(Sm, ConcId).messageCount = 1

C33_AlwaysAnswers ==
    /\ ~(chat.pc # "idle" /\ chat.thrown)
    /\ chat.pc = "done" =>
          /\ chat.ret # Null
          /\ "content" \in DOMAIN chat.ret
          /\ "sources" \in DOMAIN chat.ret

\* the embedding has failed on every attempt, the search has failed, the
\* model has failed, and the request has its answer
C33_Witness ==
    /\ chat.pc = "done"
    /\ chat.modelFailed
    /\ emb.pc = "done"
    /\ emb.ret # Null
    /\ "failed" \in DOMAIN emb.ret
    /\ vstore[ChatStore].op.name = "searchSimilar"
    /\ vstore[ChatStore].op.log = <<[ev |-> "search"], [ev |-> "failed"]>>
    /\ chat.context = Arr(<<>>)
    /\ "content" \in DOMAIN chat.ret

\* the results searchSimilar has handed to getRelevantContext, if any
C32_Results ==
    IF Constructed(ChatStore) /\ vstore[ChatStore].op.name = "searchSimilar"
       /\ vstore[ChatStore].op.pc = "returned"
    THEN vstore[ChatStore].op.ret.items ELSE <<>>
\* the prompt and the citations against the k results
C32_Assembled ==
    LET results == C32_Results
        k == Len(results)
        ellipsis == <<".", ".", ".">>
    IN  /\ (chat.pc \in {"await_model", "done"} /\ chat.model # Null) =>
              /\ Len(chat.prompt.context) = k
              /\ \A i \in 1..k :
                   LET block == chat.prompt.context[i]
                       n == IF Len(results[i].content) < 800
                            THEN Len(results[i].content) ELSE 800
                   IN  /\ block.content = SubSeq(results[i].content, 1, n) \o ellipsis
                       /\ block.title = results[i].metadata.title
                       /\ block.url = results[i].metadata.url
                       /\ block.source = results[i].metadata.source
        /\ (chat.pc = "done" /\ chat.model # Null /\ ~chat.modelFailed) =>
              /\ Len(chat.ret.sources.items) = k
              /\ \A i \in 1..k :
                   LET cited == chat.ret.sources.items[i]
                       n == IF Len(results[i].content) < 200
                            THEN Len(results[i].content) ELSE 200
                   IN  /\ cited.title = results[i].metadata.title
                       /\ cited.url = results[i].metadata.url
                       /\ cited.source = results[i].metadata.source
                       /\ cited.publishedAt = results[i].metadata.publishedAt
                       /\ cited.score = results[i].score
                       /\ cited.snippet = SubSeq(results[i].content, 1, n) \o ellipsis
\* a step of generateResponse that builds the prompt or the citations
C32_Assembling ==
    \/ chat.pc \in {"await_embedding", "await_search"} /\ chat'.pc = "await_model"
    \/ chat.pc = "await_model" /\ chat'.pc = "done"
\* C32: given k search results, the prompt holds a block for each result with
\* at most 800 characters of its content, and the response holds exactly k
\* citations in result order, each with its result's title, url, source,
\* published date and score and a snippet of at most 200 characters of its
\* content; the steps that assemble them touch neither the embeddings
\* service, nor the index, nor the session store.
C32_ContextAssembler ==
    /\ []C32_Assembled
    /\ [][C32_Assembling => UNCHANGED <<serverVars, emb, qdrant, vstore>>]_vars

\* two results, the longer chunk first: its block holds 800 of its 801
\* characters, its citation 200 of them, and the second citation follows
C32_Witness ==
    /\ chat.pc = "done"
    /\ chat.model # Null
    /\ ~chat.modelFailed
    /\ Len(C32_Results) = 2
    /\ Len(C32_Results[1].content) = ChatLongChars
    /\ Len(chat.prompt.context[1].content) = 803
    /\ Len(chat.ret.sources.items) = 2
    /\ Len(chat.ret.sources.items[1].snippet) = 203
    /\ chat.ret.sources.items[2].url = C32_Results[2].metadata.url
    /\ C32_Results[1].metadata.url # C32_Results[2].metadata.url

====
